---- MODULE Spec2Model ----
(***************************************************************************)
(* Model of the feature-state orchestrator (package k8sorchestrator) of    *)
(* the vSphere CSI driver: the one-time initialisation of the process-wide *)
(* K8sOrchestrator, the three ConfigMap callbacks that maintain its        *)
(* featureStates map, and the IsFSSEnabled query; and of the helpers of    *)
(* the metadata syncer (package syncer, util.go): volume discovery from    *)
(* the informer caches, the validity predicates and the paginated query.   *)
(*                                                                         *)
(* Go maps are reference values: `c.featureStates = fssConfigMap.Data`     *)
(* makes the orchestrator share the map of the delivered object, so the    *)
(* model keeps the delivered objects in a heap (objs) and featureStates    *)
(* as a reference into it.                                                 *)
(***************************************************************************)
EXTENDS Integers, Sequences, FiniteSets, TLC

VARIABLES
    pc,                              \* position of each caller of Newk8sOrchestrator
    onceDone,                        \* onceFork8sOrchestratorInstance: done flag
    onceLock,                        \* onceFork8sOrchestratorInstance: mutex holder, 0 = free
    bodyRuns,                        \* how many times the once-body was entered
    bodyExits,                       \* how many times the once-body returned
    k8sOrchestratorInstance,         \* the package-level pointer, 0 = nil
    coInstanceErr,                   \* each caller's local `var coInstanceErr error`
    innerErr,                        \* the closure's own coInstanceErr (declared by :=)
    featureStatesConfigMapName,      \* package-level string
    featureStatesConfigMapNamespace, \* package-level string
    featureStates,                   \* c.featureStates: 0 = the map made at line 127, o = objs[o].Data
    objs,                            \* heap of objects handed out by the API server / informer
    informerManager,                 \* TRUE once the three listeners are registered
    listening,                       \* TRUE once informerManager.Listen() was called
    ret,                             \* what each caller got back: handle and error
    fetchFailed,                     \* the initial ConfigMaps(...).Get failed
    last,                            \* the operation processed last
    tasks,                           \* callbacks running as concurrent tasks
    seqView,                         \* the set obtained by applying the delivered events one at a time
    nDelivered,                      \* number of events delivered to concurrent tasks
    reader,                          \* a client reading several features in a row
    crashed,                         \* the process died (Go runtime panic / fatal error)
    pvCache,                         \* metadataSyncer.pvLister: the cached PersistentVolumes
    pvcCache,                        \* metadataSyncer.pvcLister: the cached claims
    podCache,                        \* metadataSyncer.podLister: the cached pods
    passOut,                         \* what getPVsInBoundAvailableOrReleased / getBoundPVs returned
    valid,                           \* a call of IsValidVolume and what it returned
    inline,                          \* a call of fullSyncGetInlineMigratedVolumesInfo and what it returned
    pred,                            \* a call of one of the annotation predicates
    query                            \* a running fullSyncGetQueryResults

orchVars == <<pc, onceDone, onceLock, bodyRuns, bodyExits, k8sOrchestratorInstance,
          coInstanceErr, innerErr, featureStatesConfigMapName,
          featureStatesConfigMapNamespace, featureStates, objs, informerManager,
          listening, ret, fetchFailed, last, tasks, seqView, nDelivered, reader,
          crashed>>

syncVars == <<pvCache, pvcCache, podCache, passOut, valid, inline, pred,
              query>>

vars == <<orchVars, syncVars>>

initVars == <<pc, onceDone, onceLock, bodyRuns, bodyExits, k8sOrchestratorInstance,
              coInstanceErr, innerErr, featureStatesConfigMapName,
              featureStatesConfigMapNamespace, informerManager, listening, ret,
              fetchFailed>>

concVars == <<tasks, seqView, nDelivered, reader, crashed>>

----
\* Bounds of the model.

\* Number of goroutines calling Newk8sOrchestrator.
NCallers == 2

\* Number of objects the API server / informer hands out in one run.
MaxObjs == 2

\* Number of callbacks running as concurrent tasks.
NTasks == 2

Callers == 1..NCallers

\* Feature names used as ConfigMap keys, and one name that is never a key.
Keys == {"csi-migration", "volume-health"}

UnknownFeature == "block-volume-snapshot"

FeatureNames == Keys \cup {UnknownFeature}

\* Values a ConfigMap carries in the event model.
Values == {"true", "false"}

\* Values used to exercise the boolean parsing of IsFSSEnabled.
ParseValues == {"true", "false", "1", "0", "t", "T", "TRUE", "True", "yes", ""}

\* The designated configuration object (config.FeatureStatesConfigInfo).
CfgName == "csi-feature-states"

CfgNamespace == "kube-system"

EmptyMap == [k \in {} |-> ""]

MapsOver(V) == UNION {[D -> V] : D \in SUBSET Keys}

\* A Go map value: nil, or a map with contents m.
NilMap == [nil |-> TRUE, m |-> EmptyMap]

GoMap(m) == [nil |-> FALSE, m |-> m]

ConfigMapObj(name, namespace, data) ==
    [kind |-> "ConfigMap", name |-> name, namespace |-> namespace, data |-> data]

\* Objects with the designated name and namespace.
DesignatedObjs(V) ==
    {ConfigMapObj(CfgName, CfgNamespace, GoMap(m)) : m \in MapsOver(V)}
        \cup {ConfigMapObj(CfgName, CfgNamespace, NilMap)}

OtherPayload == GoMap([k \in {"csi-migration"} |-> "true"])

\* Objects the callbacks must ignore: another name, another namespace, and an
\* object that is no *v1.ConfigMap (e.g. a cache.DeletedFinalStateUnknown).
OtherObjs ==
    { ConfigMapObj("other-config", CfgNamespace, OtherPayload),
      ConfigMapObj(CfgName, "other-namespace", OtherPayload),
      [kind |-> "Other", name |-> CfgName, namespace |-> CfgNamespace,
       data |-> OtherPayload] }

----
\* The contents a map reference reads as (a nil map reads as empty).
Content(d) == IF d.nil THEN EmptyMap ELSE d.m

\* The map c.featureStates refers to.
FeatureStatesMap ==
    IF featureStates = 0 THEN GoMap(EmptyMap) ELSE objs[featureStates].data

View == Content(FeatureStatesMap)

----
\* strconv.ParseBool: the strings it accepts as true and as false; every
\* other string is an error.
ParseBoolTrue == {"1", "t", "T", "TRUE", "true", "True"}

ParseBoolFalse == {"0", "f", "F", "FALSE", "false", "False"}

ParseBoolStrict(flag) ==
    IF flag = "true" THEN [val |-> TRUE, err |-> FALSE]
    ELSE IF flag = "false" THEN [val |-> FALSE, err |-> FALSE]
    ELSE [val |-> FALSE, err |-> TRUE]

ParseBool(flag) ==
    IF flag \in ParseBoolTrue THEN [val |-> TRUE, err |-> FALSE]
    ELSE IF flag \in ParseBoolFalse THEN [val |-> FALSE, err |-> FALSE]
    ELSE [val |-> FALSE, err |-> TRUE]

IsFSSEnabledInDefaultOn(m, featureName) ==
    IF featureName \in DOMAIN m
    THEN (IF ParseBool(m[featureName]).err THEN FALSE
          ELSE ParseBool(m[featureName]).val)
    ELSE TRUE

\* K8sOrchestrator.IsFSSEnabled on a map with contents m.
IsFSSEnabledIn(m, featureName) ==
    IF featureName \in DOMAIN m
    THEN (IF ParseBool(m[featureName]).err THEN FALSE
          ELSE ParseBool(m[featureName]).val)
    ELSE FALSE

\* strconv.FormatBool(false)
FormatBoolFalse == "false"

ResetAllClears(d) == IF d.nil THEN d ELSE GoMap(EmptyMap)

\* The loop of configMapDeleted run to its end on the map d.
ResetAll(d) ==
    IF d.nil THEN d ELSE GoMap([k \in DOMAIN d.m |-> FormatBoolFalse])

\* old entries kept, entries of new added or overwritten
Merge(old, new) ==
    [k \in DOMAIN old \cup DOMAIN new |-> IF k \in DOMAIN new THEN new[k] ELSE old[k]]

updateFSSValuesMerging(o, heap) ==
    /\ featureStates' = o
    /\ objs' = IF heap[o].data.nil THEN heap
               ELSE [heap EXCEPT ![o].data = GoMap(Merge(View, heap[o].data.m))]

\* updateFSSValues: c.featureStates = fssConfigMap.Data, where the object is
\* heap[o]. The map is shared, not copied.
updateFSSValues(o, heap) ==
    /\ featureStates' = o
    /\ objs' = heap

\* obj.(*v1.ConfigMap) succeeds and the pointer is not nil.
IsConfigMap(o) == o # 0 /\ objs[o].kind = "ConfigMap"

IsDesignatedNameOnly(o) == objs[o].name = featureStatesConfigMapName

\* The name and namespace test of the three callbacks.
IsDesignated(o) ==
    /\ objs[o].name = featureStatesConfigMapName
    /\ objs[o].namespace = featureStatesConfigMapNamespace

NoOp == [op |-> "none", obj |-> 0, name |-> "", res |-> FALSE]

EventOp(op, o) == [op |-> op, obj |-> o, name |-> "", res |-> FALSE]

ReadOp(name, res) == [op |-> "read", obj |-> 0, name |-> name, res |-> res]

----
\* Newk8sOrchestrator, one step per statement that touches shared state.

Goto(p, label) == pc' = [pc EXCEPT ![p] = label]

\* sync.Once.Do, fast path: the done flag is read without the mutex.
CallDo(p) ==
    /\ pc[p] = "call"
    /\ ~crashed
    /\ Goto(p, IF onceDone THEN "return" ELSE "lock")
    /\ UNCHANGED <<onceDone, onceLock, bodyRuns, bodyExits, k8sOrchestratorInstance,
                   coInstanceErr, innerErr, featureStatesConfigMapName,
                   featureStatesConfigMapNamespace, featureStates, objs,
                   informerManager, listening, ret, fetchFailed, last>>
    /\ UNCHANGED concVars
    /\ UNCHANGED syncVars

OnceMutexFreeNoMutex == TRUE

\* sync.Once.Do, slow path: the mutex of the Once can be taken.
OnceMutexFree == onceLock = 0

\* sync.Once.Do, slow path: take the mutex, test done again, enter the body.
DoSlow(p) ==
    /\ pc[p] = "lock"
    /\ OnceMutexFree
    /\ IF onceDone
       THEN /\ Goto(p, "return")
            /\ UNCHANGED <<onceLock, bodyRuns>>
       ELSE /\ Goto(p, "new")
            /\ onceLock' = p
            /\ bodyRuns' = bodyRuns + 1
    /\ UNCHANGED <<onceDone, bodyExits, k8sOrchestratorInstance, coInstanceErr,
                   innerErr, featureStatesConfigMapName,
                   featureStatesConfigMapNamespace, featureStates, objs,
                   informerManager, listening, ret, fetchFailed, last>>
    /\ UNCHANGED concVars
    /\ UNCHANGED syncVars

\* k8sOrchestratorInstance = &K8sOrchestrator{}; featureStates = make(map)
BodyNew(p) ==
    /\ pc[p] = "new"
    /\ k8sOrchestratorInstance' = bodyRuns
    /\ featureStates' = 0
    /\ Goto(p, "client")
    /\ UNCHANGED <<onceDone, onceLock, bodyRuns, bodyExits, coInstanceErr, innerErr,
                   featureStatesConfigMapName, featureStatesConfigMapNamespace, objs,
                   informerManager, listening, ret, fetchFailed, last>>
    /\ UNCHANGED concVars
    /\ UNCHANGED syncVars

\* k8sClient, coInstanceErr := k8s.NewClient(ctx): the := declares a new
\* coInstanceErr inside the closure; the caller's variable is not assigned.
BodyNewClient(p) ==
    /\ pc[p] = "client"
    /\ \E e \in {"nil", "clientErr"} :
         /\ innerErr' = e
         /\ Goto(p, IF e # "nil" THEN "exit" ELSE "fetch")
    /\ UNCHANGED <<onceDone, onceLock, bodyRuns, bodyExits, k8sOrchestratorInstance,
                   coInstanceErr, featureStatesConfigMapName,
                   featureStatesConfigMapNamespace, featureStates, objs,
                   informerManager, listening, ret, fetchFailed, last>>
    /\ UNCHANGED concVars
    /\ UNCHANGED syncVars

FetchFailurePcAborts == "exit"

\* Where the body goes on after the initial Get failed: the error is logged
\* and the listeners are set up all the same.
FetchFailurePc == "register"

\* The two package-level names are set and the ConfigMap is fetched once.
BodyFetch(p) ==
    /\ pc[p] = "fetch"
    /\ featureStatesConfigMapName' = CfgName
    /\ featureStatesConfigMapNamespace' = CfgNamespace
    /\ \/ /\ fetchFailed' = TRUE
          /\ Goto(p, FetchFailurePc)
          /\ UNCHANGED <<featureStates, objs>>
       \/ /\ Len(objs) < MaxObjs
          /\ \E obj \in DesignatedObjs(Values) :
               updateFSSValues(Len(objs) + 1, Append(objs, obj))
          /\ Goto(p, "register")
          /\ UNCHANGED fetchFailed
    /\ UNCHANGED <<onceDone, onceLock, bodyRuns, bodyExits, k8sOrchestratorInstance,
                   coInstanceErr, innerErr, informerManager, listening, ret, last>>
    /\ UNCHANGED concVars
    /\ UNCHANGED syncVars

\* informerManager = k8s.NewInformer(k8sClient); AddConfigMapListener(...)
BodyRegister(p) ==
    /\ pc[p] = "register"
    /\ informerManager' = TRUE
    /\ Goto(p, "listen")
    /\ UNCHANGED <<onceDone, onceLock, bodyRuns, bodyExits, k8sOrchestratorInstance,
                   coInstanceErr, innerErr, featureStatesConfigMapName,
                   featureStatesConfigMapNamespace, featureStates, objs, listening,
                   ret, fetchFailed, last>>
    /\ UNCHANGED concVars
    /\ UNCHANGED syncVars

\* informerManager.Listen()
BodyListen(p) ==
    /\ pc[p] = "listen"
    /\ listening' = TRUE
    /\ Goto(p, "exit")
    /\ UNCHANGED <<onceDone, onceLock, bodyRuns, bodyExits, k8sOrchestratorInstance,
                   coInstanceErr, innerErr, featureStatesConfigMapName,
                   featureStatesConfigMapNamespace, featureStates, objs,
                   informerManager, ret, fetchFailed, last>>
    /\ UNCHANGED concVars
    /\ UNCHANGED syncVars

\* The closure returns: sync.Once stores done and releases its mutex.
BodyExit(p) ==
    /\ pc[p] = "exit"
    /\ onceDone' = TRUE
    /\ onceLock' = 0
    /\ bodyExits' = bodyExits + 1
    /\ Goto(p, "return")
    /\ UNCHANGED <<bodyRuns, k8sOrchestratorInstance, coInstanceErr, innerErr,
                   featureStatesConfigMapName, featureStatesConfigMapNamespace,
                   featureStates, objs, informerManager, listening, ret,
                   fetchFailed, last>>
    /\ UNCHANGED concVars
    /\ UNCHANGED syncVars

\* return k8sOrchestratorInstance, coInstanceErr
Return(p) ==
    /\ pc[p] = "return"
    /\ ret' = [ret EXCEPT ![p] = [handle |-> k8sOrchestratorInstance,
                                  err |-> coInstanceErr[p]]]
    /\ Goto(p, "done")
    /\ UNCHANGED <<onceDone, onceLock, bodyRuns, bodyExits, k8sOrchestratorInstance,
                   coInstanceErr, innerErr, featureStatesConfigMapName,
                   featureStatesConfigMapNamespace, featureStates, objs,
                   informerManager, listening, fetchFailed, last>>
    /\ UNCHANGED concVars
    /\ UNCHANGED syncVars

Newk8sOrchestrator(p) ==
    \/ CallDo(p)
    \/ DoSlow(p)
    \/ BodyNew(p)
    \/ BodyNewClient(p)
    \/ BodyFetch(p)
    \/ BodyRegister(p)
    \/ BodyListen(p)
    \/ BodyExit(p)
    \/ Return(p)

----
\* The informer and its callbacks, one callback at a time (the informer runs
\* the handlers of one listener one after the other).

CallbacksLive == informerManager /\ listening /\ ~crashed

IdleTask == [st |-> "idle", kind |-> "none", rng |-> 0, must |-> {}, visited |-> {}]

IdleReader == [st |-> "idle", obs |-> EmptyMap, pre |-> EmptyMap,
               post |-> EmptyMap, scoped |-> FALSE]

\* The API server produces a version of an object and the informer decodes it
\* into a new object of its cache.
NewObject ==
    /\ CallbacksLive
    /\ Len(objs) < MaxObjs
    /\ \E obj \in DesignatedObjs(Values) \cup OtherObjs : objs' = Append(objs, obj)
    /\ UNCHANGED <<featureStates, last>>
    /\ UNCHANGED initVars
    /\ UNCHANGED concVars
    /\ UNCHANGED syncVars

\* configMapAdded(obj, c); o = 0 is a nil obj.
configMapAdded(o) ==
    /\ CallbacksLive
    /\ IF IsConfigMap(o) /\ IsDesignated(o)
       THEN updateFSSValues(o, objs)
       ELSE UNCHANGED <<featureStates, objs>>
    /\ last' = EventOp("add", o)
    /\ UNCHANGED initVars
    /\ UNCHANGED concVars
    /\ UNCHANGED syncVars

\* configMapUpdated(oldObj, newObj, c): oldObj is not looked at.
configMapUpdated(old, new) ==
    /\ CallbacksLive
    /\ IF IsConfigMap(new) /\ IsDesignated(new)
       THEN updateFSSValues(new, objs)
       ELSE UNCHANGED <<featureStates, objs>>
    /\ last' = EventOp("update", new)
    /\ UNCHANGED initVars
    /\ UNCHANGED concVars
    /\ UNCHANGED syncVars

\* configMapDeleted(obj, c): every key of c.featureStates is set to "false"
\* in the map c.featureStates refers to.
configMapDeleted(o) ==
    /\ CallbacksLive
    /\ IF IsConfigMap(o) /\ IsDesignated(o) /\ featureStates # 0
       THEN objs' = [objs EXCEPT ![featureStates].data = ResetAll(@)]
       ELSE UNCHANGED objs
    /\ last' = EventOp("delete", o)
    /\ UNCHANGED featureStates
    /\ UNCHANGED initVars
    /\ UNCHANGED concVars
    /\ UNCHANGED syncVars

\* Used as a variant of CallIsFSSEnabled: a read that stores the default of a
\* feature it does not find.
CallIsFSSEnabledCaching(p, featureName) ==
    /\ pc[p] = "done"
    /\ ~crashed
    /\ ret[p].handle # 0
    /\ last' = ReadOp(featureName, IsFSSEnabledIn(View, featureName))
    /\ IF featureStates # 0 /\ ~objs[featureStates].data.nil
                           /\ featureName \notin DOMAIN View
       THEN objs' = [objs EXCEPT ![featureStates].data.m =
                                    @ @@ (featureName :> FormatBoolFalse)]
       ELSE UNCHANGED objs
    /\ UNCHANGED <<featureStates, tasks, seqView, nDelivered, reader, crashed>>
    /\ UNCHANGED initVars
    /\ UNCHANGED syncVars

\* c.IsFSSEnabled(ctx, featureName), called on the handle caller p was given;
\* c.featureStates on a nil handle is a nil pointer dereference.
CallIsFSSEnabled(p, featureName) ==
    /\ pc[p] = "done"
    /\ ~crashed
    /\ IF ret[p].handle = 0
       THEN /\ crashed' = TRUE
            /\ UNCHANGED last
       ELSE /\ last' = ReadOp(featureName, IsFSSEnabledIn(View, featureName))
            /\ UNCHANGED crashed
    /\ UNCHANGED <<featureStates, objs, tasks, seqView, nDelivered, reader>>
    /\ UNCHANGED initVars
    /\ UNCHANGED syncVars

ObjRefs == 0..Len(objs)

\* The syncer's helpers are not running and its caches are empty.
NoPassOut == [fn \in {} |-> 0]

Idle == [st |-> "idle"]

IdlePred == [op |-> "none"]

SyncIdle ==
    /\ pvCache = <<>>
    /\ pvcCache = <<>>
    /\ podCache = <<>>
    /\ passOut = NoPassOut
    /\ valid = Idle
    /\ inline = Idle
    /\ pred = IdlePred
    /\ query = Idle

Init ==
    /\ pc = [p \in Callers |-> "call"]
    /\ onceDone = FALSE
    /\ onceLock = 0
    /\ bodyRuns = 0
    /\ bodyExits = 0
    /\ k8sOrchestratorInstance = 0
    /\ coInstanceErr = [p \in Callers |-> "nil"]
    /\ innerErr = "nil"
    /\ featureStatesConfigMapName = ""
    /\ featureStatesConfigMapNamespace = ""
    /\ featureStates = 0
    /\ objs = <<>>
    /\ informerManager = FALSE
    /\ listening = FALSE
    /\ ret = [p \in Callers |-> [handle |-> 0, err |-> "nil"]]
    /\ fetchFailed = FALSE
    /\ last = NoOp
    /\ tasks = [t \in 1..NTasks |-> IdleTask]
    /\ seqView = EmptyMap
    /\ nDelivered = 0
    /\ reader = IdleReader
    /\ crashed = FALSE
    /\ SyncIdle

\* The previous object of the cache, passed as oldObj of an update.
Previous(o) == IF o > 1 THEN o - 1 ELSE 0

\* The caller whose handle the callbacks and the readers of Spec work on.
FirstCaller == 1

\* Concurrent callers of Newk8sOrchestrator.
NextInit == \E p \in Callers : Newk8sOrchestrator(p)

SpecInit == Init /\ [][NextInit]_vars

\* One call of Newk8sOrchestrator, then the informer's callbacks, one at a
\* time, and readers of the feature states.
Next ==
    \/ \E p \in {FirstCaller} : Newk8sOrchestrator(p)
    \/ NewObject
    \/ \E o \in ObjRefs : configMapAdded(o)
    \/ \E new \in ObjRefs : configMapUpdated(Previous(new), new)
    \/ \E o \in ObjRefs : configMapDeleted(o)
    \/ \E n \in FeatureNames : CallIsFSSEnabled(FirstCaller, n)

Spec == Init /\ [][Next]_vars

----
\* Properties of the initialisation.

Returned(p) == pc[p] = "done"

\* C1: however the calls of Newk8sOrchestrator interleave, the body of the
\* Once is entered at most once; a caller that has left Do, and so every
\* caller that has returned, does so after the one body has returned; and
\* every returned caller holds the same, non-nil handle.
C1_InitOnceSameHandle ==
    /\ bodyRuns <= 1
    /\ \A p \in Callers :
         pc[p] \in {"return", "done"} => (onceDone /\ bodyRuns = 1 /\ bodyExits = 1)
    /\ \A p \in Callers :
         Returned(p) => (ret[p].handle # 0 /\ ret[p].handle = k8sOrchestratorInstance)
    /\ \A p, q \in Callers :
         (Returned(p) /\ Returned(q)) => ret[p].handle = ret[q].handle

\* Every caller has returned, one of them having run the body.
C1_Witness == \A p \in Callers : Returned(p) /\ ret[p].handle = 1

\* C2: when k8s.NewClient failed in the one-time body, every caller that has
\* returned holds the same handle and a non-nil error.
C2_FailureSeenByAll ==
    \A p \in Callers :
      (Returned(p) /\ innerErr # "nil") =>
         /\ ret[p].err # "nil"
         /\ \A q \in Callers : Returned(q) => (ret[q].handle = ret[p].handle
                                                /\ ret[q].err = ret[p].err)

----
\* Properties of the callbacks, one callback at a time.

\* The object of the operation processed last is one the callbacks must
\* ignore: nil, no ConfigMap, or another name or namespace.
Ignored(o) ==
    \/ o = 0
    \/ objs[o].kind # "ConfigMap"
    \/ objs[o].name # CfgName
    \/ objs[o].namespace # CfgNamespace

IsEvent(l, ops) == l.op \in ops

\* C3: a read of a feature name that is no key of the current set returns
\* disabled, and no read on a returned handle makes the process fail.
C3_UnknownReadsDisabled ==
    /\ (last.op = "read" /\ last.name \notin DOMAIN View) => last.res = FALSE
    /\ ~crashed

\* A name that is no key was read while the set holds both keys, after a
\* callback changed the set.
C3_Witness ==
    /\ last.op = "read"
    /\ last.name = UnknownFeature
    /\ DOMAIN View = Keys
    /\ featureStates = 2

\* C4: a delete event for the designated object keeps the keys of the set and
\* leaves every one of them reading disabled (stored as "false").
C4_DeleteResetsKeepsKeys ==
    [][ (IsEvent(last', {"delete"}) /\ ~Ignored(last'.obj)) =>
          /\ DOMAIN View' = DOMAIN View
          /\ \A k \in DOMAIN View : View'[k] = "false" /\ ~IsFSSEnabledIn(View', k)
      ]_vars

\* A designated delete was processed on a set with both keys.
C4_Witness ==
    /\ last.op = "delete"
    /\ ~Ignored(last.obj)
    /\ DOMAIN View = Keys
    /\ \A k \in Keys : View[k] = "false"

\* C5: an add or update event for the designated object makes the set equal
\* to the payload the object was delivered with: nothing else is a key.
C5_AddUpdateReplaces ==
    [][ (IsEvent(last', {"add", "update"}) /\ ~Ignored(last'.obj)) =>
          /\ View' = Content(objs[last'.obj].data)
          /\ \A n \in FeatureNames :
               n \notin DOMAIN Content(objs[last'.obj].data) =>
                 ~IsFSSEnabledIn(View', n)
      ]_vars

\* An update was processed whose payload lacks a key that another delivered
\* payload has.
C5_Witness ==
    /\ last.op = "update"
    /\ ~Ignored(last.obj)
    /\ featureStates = last.obj
    /\ \E o \in 1..Len(objs) :
         /\ o # last.obj
         /\ ~Ignored(o)
         /\ \E k \in DOMAIN Content(objs[o].data) :
              k \notin DOMAIN View /\ objs[o].data.m[k] = "true"

\* C9: an add, update or delete event whose object is nil, is no ConfigMap,
\* or has another name or namespace leaves the set as it was.
C9_IgnoredEventsChangeNothing ==
    [][ (IsEvent(last', {"add", "update", "delete"}) /\ Ignored(last'.obj)) =>
          /\ View' = View
          /\ featureStates' = featureStates
      ]_vars

\* An add of an object of another namespace was ignored while the set held
\* an enabled feature.
C9_Witness ==
    /\ last.op = "add"
    /\ last.obj # 0
    /\ objs[last.obj].kind = "ConfigMap"
    /\ objs[last.obj].name = CfgName
    /\ objs[last.obj].namespace # CfgNamespace
    /\ \E k \in DOMAIN View : View[k] = "true"

\* C10: when the initial fetch failed, the call still returns the handle and
\* no error, with the callbacks registered and the informer started; the set
\* is empty until a callback fills it, and an add event for the designated
\* object fills it with that object's payload.
C10_FetchFailureFailsOpen ==
    fetchFailed =>
      /\ pc[FirstCaller] \in {"return", "done"} => (informerManager /\ listening)
      /\ Returned(FirstCaller) =>
           (ret[FirstCaller].handle = k8sOrchestratorInstance
            /\ ret[FirstCaller].handle # 0
            /\ ret[FirstCaller].err = "nil")
      /\ last.op = "none" =>
           (View = EmptyMap /\ \A n \in FeatureNames : ~IsFSSEnabledIn(View, n))
      /\ (last.op = "add" /\ ~Ignored(last.obj)) =>
           View = Content(objs[last.obj].data)

\* After a failed fetch the call has returned and an add event has filled the
\* set with both keys.
C10_Witness ==
    /\ fetchFailed
    /\ Returned(FirstCaller)
    /\ last.op = "add"
    /\ ~Ignored(last.obj)
    /\ DOMAIN View = Keys

----
\* IsFSSEnabled on every payload over ParseValues: the orchestrator has been
\* initialised by one caller and the initial fetch returned the payload.

InitParse ==
    /\ pc = [p \in Callers |-> IF p = FirstCaller THEN "done" ELSE "call"]
    /\ onceDone = TRUE
    /\ onceLock = 0
    /\ bodyRuns = 1
    /\ bodyExits = 1
    /\ k8sOrchestratorInstance = 1
    /\ coInstanceErr = [p \in Callers |-> "nil"]
    /\ innerErr = "nil"
    /\ featureStatesConfigMapName = CfgName
    /\ featureStatesConfigMapNamespace = CfgNamespace
    /\ featureStates = 1
    /\ objs \in {<<obj>> : obj \in DesignatedObjs(ParseValues)}
    /\ informerManager = TRUE
    /\ listening = TRUE
    /\ ret = [p \in Callers |-> IF p = FirstCaller
                                THEN [handle |-> 1, err |-> "nil"]
                                ELSE [handle |-> 0, err |-> "nil"]]
    /\ fetchFailed = FALSE
    /\ last = NoOp
    /\ tasks = [t \in 1..NTasks |-> IdleTask]
    /\ seqView = EmptyMap
    /\ nDelivered = 0
    /\ reader = IdleReader
    /\ crashed = FALSE
    /\ SyncIdle

NextParse == \E n \in FeatureNames : CallIsFSSEnabled(FirstCaller, n)

SpecParse == InitParse /\ [][NextParse]_vars

\* C8 as stated: a key reads enabled exactly when its stored value is the
\* literal "true", whatever the other keys hold.
C8_EnabledOnlyLiteralTrue ==
    (last.op = "read" /\ last.name \in DOMAIN View) =>
       /\ last.res = (View[last.name] = "true")
       /\ \A m \in MapsOver(ParseValues) :
            (last.name \in DOMAIN m /\ m[last.name] = View[last.name]) =>
               IsFSSEnabledIn(m, last.name) = last.res

\* C8, amended: a key reads enabled exactly when its stored value is one of
\* the strings strconv.ParseBool takes as true ("1", "t", "T", "TRUE", "true",
\* "True"); every other value, "false" and unparsable text included, reads
\* disabled; and the result depends on no other key.
C8_EnabledIffParsesTrue ==
    (last.op = "read" /\ last.name \in DOMAIN View) =>
       /\ last.res = (View[last.name] \in {"1", "t", "T", "TRUE", "true", "True"})
       /\ \A m \in MapsOver(ParseValues) :
            (last.name \in DOMAIN m /\ m[last.name] = View[last.name]) =>
               IsFSSEnabledIn(m, last.name) = last.res

\* A key holding "T" was read as enabled while the other key holds text that
\* does not parse.
C8_Witness ==
    /\ last.op = "read"
    /\ last.res = TRUE
    /\ DOMAIN View = Keys
    /\ View[last.name] = "T"
    /\ \E k \in Keys : k # last.name /\ View[k] = "yes"

----
\* The callbacks as concurrent tasks, and a reader beside them. A callback is
\* delivered when it is invoked; configMapAdded and configMapUpdated then act
\* in one step (their only access to shared state is the assignment of
\* updateFSSValues), configMapDeleted takes one step for the range expression
\* and one per iteration of its loop.

DoneTask == [IdleTask EXCEPT !.st = "done"]

\* The map a reference refers to.
RefMap(r) == IF r = 0 THEN GoMap(EmptyMap) ELSE objs[r].data

InLoop(t) == tasks[t].st = "loop"

\* The entries the range of task t can still produce.
Pending(t) == DOMAIN Content(RefMap(tasks[t].rng)) \ tasks[t].visited

\* What a reader of every key sees in a set with contents m.
ReadView(m) == [k \in Keys |-> IsFSSEnabledIn(m, k)]

\* A delivered event ends the reader's being alone with one delete.
Disturb(isDelete) ==
    reader' = IF reader.st = "reading" /\ (~isDelete \/ \E t \in 1..NTasks : InLoop(t))
              THEN [reader EXCEPT !.scoped = FALSE]
              ELSE reader

\* configMapAdded / configMapUpdated invoked as a task for the object o.
TaskAddOrUpdate(t, kind, o) ==
    /\ CallbacksLive
    /\ tasks[t].st = "idle"
    /\ IF IsConfigMap(o) /\ IsDesignated(o)
       THEN /\ updateFSSValues(o, objs)
            /\ seqView' = Content(objs[o].data)
       ELSE UNCHANGED <<featureStates, objs, seqView>>
    /\ tasks' = [tasks EXCEPT ![t] = DoneTask]
    /\ nDelivered' = nDelivered + 1
    /\ Disturb(FALSE)
    /\ UNCHANGED <<last, crashed>>
    /\ UNCHANGED initVars
    /\ UNCHANGED syncVars

\* configMapDeleted invoked as a task: the name test, and the range
\* expression c.featureStates evaluated once.
TaskDeleteStart(t, o) ==
    /\ CallbacksLive
    /\ tasks[t].st = "idle"
    /\ IF IsConfigMap(o) /\ IsDesignated(o)
       THEN /\ tasks' = [tasks EXCEPT ![t] =
                           [IdleTask EXCEPT !.st = "loop", !.kind = "delete",
                                            !.rng = featureStates,
                                            !.must = DOMAIN View]]
            /\ seqView' = [k \in DOMAIN seqView |-> FormatBoolFalse]
       ELSE /\ tasks' = [tasks EXCEPT ![t] = DoneTask]
            /\ UNCHANGED seqView
    /\ nDelivered' = nDelivered + 1
    /\ Disturb(TRUE)
    /\ UNCHANGED <<featureStates, objs, last, crashed>>
    /\ UNCHANGED initVars
    /\ UNCHANGED syncVars

\* One iteration: the range produces featureName from the map it was started
\* on, and c.featureStates[featureName] = "false" stores into the map
\* c.featureStates refers to now. Storing into a nil map panics.
TaskDeleteIter(t, featureName) ==
    /\ ~crashed
    /\ InLoop(t)
    /\ featureName \in Pending(t)
    /\ tasks' = [tasks EXCEPT ![t].visited = @ \cup {featureName}]
    /\ IF FeatureStatesMap.nil
       THEN /\ crashed' = TRUE
            /\ UNCHANGED objs
       ELSE /\ objs' = [objs EXCEPT ![featureStates].data =
                          GoMap([k \in DOMAIN @.m \cup {featureName} |->
                                   IF k = featureName THEN FormatBoolFalse ELSE @.m[k]])]
            /\ UNCHANGED crashed
    /\ UNCHANGED <<featureStates, last, seqView, nDelivered, reader>>
    /\ UNCHANGED initVars
    /\ UNCHANGED syncVars

\* The range is exhausted: every entry it was started with has been
\* produced (an entry stored meanwhile may have been skipped).
TaskDeleteEnd(t) ==
    /\ ~crashed
    /\ InLoop(t)
    /\ tasks[t].must \subseteq tasks[t].visited
    /\ tasks' = [tasks EXCEPT ![t] = DoneTask]
    /\ UNCHANGED <<featureStates, objs, last, seqView, nDelivered, reader, crashed>>
    /\ UNCHANGED initVars
    /\ UNCHANGED syncVars

\* A client starts to ask for every feature in turn.
ReaderStart ==
    /\ ~crashed
    /\ reader.st = "idle"
    /\ reader' = [st |-> "reading", obs |-> EmptyMap,
                  pre |-> ReadView(View),
                  post |-> ReadView([k \in DOMAIN View |-> FormatBoolFalse]),
                  scoped |-> \A t \in 1..NTasks :
                                InLoop(t) => (tasks[t].visited = {}
                                              /\ \A u \in 1..NTasks : InLoop(u) => u = t)]
    /\ UNCHANGED <<featureStates, objs, last, tasks, seqView, nDelivered, crashed>>
    /\ UNCHANGED initVars
    /\ UNCHANGED syncVars

\* c.IsFSSEnabled(ctx, featureName) by the client.
ReaderRead(featureName) ==
    /\ ~crashed
    /\ reader.st = "reading"
    /\ featureName \notin DOMAIN reader.obs
    /\ reader' = [reader EXCEPT !.obs =
                     [k \in DOMAIN @ \cup {featureName} |->
                        IF k = featureName THEN IsFSSEnabledIn(View, featureName)
                        ELSE @[k]]]
    /\ UNCHANGED <<featureStates, objs, last, tasks, seqView, nDelivered, crashed>>
    /\ UNCHANGED initVars
    /\ UNCHANGED syncVars

ReaderEnd ==
    /\ ~crashed
    /\ reader.st = "reading"
    /\ DOMAIN reader.obs = Keys
    /\ reader' = [reader EXCEPT !.st = "done"]
    /\ UNCHANGED <<featureStates, objs, last, tasks, seqView, nDelivered, crashed>>
    /\ UNCHANGED initVars
    /\ UNCHANGED syncVars

\* The Go runtime ends the process when it meets a map store that runs
\* beside a load of, or another store into, the same map ("fatal error:
\* concurrent map read and map write", "concurrent map writes").
MapRaceFatal ==
    /\ ~crashed
    /\ \E t \in 1..NTasks :
         /\ InLoop(t)
         /\ Pending(t) # {}
         /\ \/ reader.st = "reading"
            \/ \E u \in 1..NTasks : u # t /\ InLoop(u) /\ Pending(u) # {}
    /\ crashed' = TRUE
    /\ UNCHANGED <<featureStates, objs, last, tasks, seqView, nDelivered, reader>>
    /\ UNCHANGED initVars
    /\ UNCHANGED syncVars

\* Payloads of the two objects the concurrent model starts with.
ConcPayloads ==
    { NilMap,
      GoMap([k \in {"csi-migration"} |-> "true"]),
      GoMap([k \in Keys |-> "true"]),
      GoMap([k \in Keys |-> IF k = "csi-migration" THEN "true" ELSE "false"]) }

\* The orchestrator is initialised, two versions of the designated object
\* have been delivered and the set is the payload of one of them.
InitConc ==
    /\ pc = [p \in Callers |-> IF p = FirstCaller THEN "done" ELSE "call"]
    /\ onceDone = TRUE
    /\ onceLock = 0
    /\ bodyRuns = 1
    /\ bodyExits = 1
    /\ k8sOrchestratorInstance = 1
    /\ coInstanceErr = [p \in Callers |-> "nil"]
    /\ innerErr = "nil"
    /\ featureStatesConfigMapName = CfgName
    /\ featureStatesConfigMapNamespace = CfgNamespace
    /\ objs \in {<<ConfigMapObj(CfgName, CfgNamespace, a),
                   ConfigMapObj(CfgName, CfgNamespace, b)>> :
                    a \in ConcPayloads, b \in ConcPayloads}
    /\ featureStates \in {1, 2}
    /\ informerManager = TRUE
    /\ listening = TRUE
    /\ ret = [p \in Callers |-> IF p = FirstCaller
                                THEN [handle |-> 1, err |-> "nil"]
                                ELSE [handle |-> 0, err |-> "nil"]]
    /\ fetchFailed = FALSE
    /\ last = NoOp
    /\ tasks = [t \in 1..NTasks |-> IdleTask]
    /\ seqView = Content(objs[featureStates].data)
    /\ nDelivered = 0
    /\ reader = IdleReader
    /\ crashed = FALSE
    /\ SyncIdle

NextConc ==
    \/ \E t \in 1..NTasks, o \in 1..Len(objs) : TaskAddOrUpdate(t, "add", o)
    \/ \E t \in 1..NTasks, o \in 1..Len(objs) : TaskAddOrUpdate(t, "update", o)
    \/ \E t \in 1..NTasks, o \in 1..Len(objs) : TaskDeleteStart(t, o)
    \/ \E t \in 1..NTasks, k \in Keys : TaskDeleteIter(t, k)
    \/ \E t \in 1..NTasks : TaskDeleteEnd(t)
    \/ ReaderStart
    \/ \E k \in Keys : ReaderRead(k)
    \/ ReaderEnd
    \/ MapRaceFatal

SpecConc == InitConc /\ [][NextConc]_vars

AllTasksFinished == \A t \in 1..NTasks : tasks[t].st \in {"idle", "done"}

\* C6: once every callback task has finished, the set is the result of the
\* event delivered last (the payload of the last add or update, or the reset
\* of every key by the last delete): a delete that overlaps a later update
\* has neither changed a value of the update's payload nor added a key to it.
C6_ConvergesToLatestEvent ==
    (AllTasksFinished /\ nDelivered > 0 /\ ~crashed) => View = seqView

\* C7: a reader that asked for every feature while one delete callback, and
\* no other callback, was in flight saw the whole set of before the event or
\* the whole set of after it.
C7_ReaderSeesWholeSet ==
    (reader.st = "done" /\ reader.scoped /\ ~crashed) =>
       (reader.obs = reader.pre \/ reader.obs = reader.post)

----
\* The metadata syncer (package syncer, util.go).

\* Names the syncer compares with: the CSI driver's name, the in-tree
\* plugin's name and the feature switch of the migration.
csitypes_Name == "csi.vsphere.vmware.com"

InTreePluginName == "kubernetes.io/vsphere-volume"

OtherDriver == "other.csi.driver"

CSIMigration == "csi-migration"

\* Annotation keys.
AnnMigratedTo == "pv.kubernetes.io/migrated-to"

AnnStorageProvisioner == "volume.beta.kubernetes.io/storage-provisioner"

AnnDynamicallyProvisioned == "pv.kubernetes.io/provisioned-by"

AnnKeys == {AnnMigratedTo, AnnStorageProvisioner, AnnDynamicallyProvisioned}

AnnValues == {csitypes_Name, InTreePluginName, OtherDriver}

\* Every annotation map over the three keys (the empty one is also what a
\* nil map reads as).
AnnMaps == UNION {[D -> AnnValues] : D \in SUBSET AnnKeys}

\* m[k] of a Go map: the zero value "" when the key is missing.
Lookup(m, k) == IF k \in DOMAIN m THEN m[k] ELSE ""

\* The orchestrator has been initialised by one caller and holds the
\* designated object with one of the given payloads.
OrchReady(payloads) ==
    /\ pc = [p \in Callers |-> IF p = FirstCaller THEN "done" ELSE "call"]
    /\ onceDone = TRUE
    /\ onceLock = 0
    /\ bodyRuns = 1
    /\ bodyExits = 1
    /\ k8sOrchestratorInstance = 1
    /\ coInstanceErr = [p \in Callers |-> "nil"]
    /\ innerErr = "nil"
    /\ featureStatesConfigMapName = CfgName
    /\ featureStatesConfigMapNamespace = CfgNamespace
    /\ featureStates = 1
    /\ objs \in {<<ConfigMapObj(CfgName, CfgNamespace, d)>> : d \in payloads}
    /\ informerManager = TRUE
    /\ listening = TRUE
    /\ ret = [p \in Callers |-> IF p = FirstCaller
                                THEN [handle |-> 1, err |-> "nil"]
                                ELSE [handle |-> 0, err |-> "nil"]]
    /\ fetchFailed = FALSE
    /\ last = NoOp
    /\ tasks = [t \in 1..NTasks |-> IdleTask]
    /\ seqView = EmptyMap
    /\ nDelivered = 0
    /\ reader = IdleReader
    /\ crashed = FALSE

\* Payloads of the designated object: migration on, off, and not mentioned.
MigrationPayloads ==
    { GoMap([k \in {CSIMigration} |-> "true"]),
      GoMap([k \in {CSIMigration} |-> "false"]),
      GoMap(EmptyMap) }

\* metadataSyncer.coCommonInterface.IsFSSEnabled(ctx, common.CSIMigration)
MigrationEnabled == IsFSSEnabledIn(View, CSIMigration)

----
\* The annotation predicates.

\* Used as a variant of isValidvSphereVolumeClaim: the provisioner decides,
\* whether or not the migrated-to annotation is there.
isValidvSphereVolumeClaimNoElse(ann) ==
    \/ /\ AnnMigratedTo \in DOMAIN ann
       /\ ann[AnnMigratedTo] = csitypes_Name
       /\ Lookup(ann, AnnStorageProvisioner) = InTreePluginName
    \/ Lookup(ann, AnnStorageProvisioner) = csitypes_Name

isValidvSphereVolumeClaim(ann) ==
    IF AnnMigratedTo \in DOMAIN ann
    THEN /\ ann[AnnMigratedTo] = csitypes_Name
         /\ Lookup(ann, AnnStorageProvisioner) = InTreePluginName
    ELSE Lookup(ann, AnnStorageProvisioner) = csitypes_Name

\* Used as a variant of isValidvSphereVolume: it reads the claim's key.
isValidvSphereVolumeClaimKey(ann) == isValidvSphereVolumeClaim(ann)

isValidvSphereVolume(ann) ==
    IF AnnMigratedTo \in DOMAIN ann
    THEN /\ ann[AnnMigratedTo] = csitypes_Name
         /\ Lookup(ann, AnnDynamicallyProvisioned) = InTreePluginName
    ELSE Lookup(ann, AnnDynamicallyProvisioned) = csitypes_Name

\* Used as a variant of HasMigratedToAnnotationUpdate: it compares values.
HasMigratedToAnnotationUpdateByValue(prevAnnotations, newAnnotations) ==
    /\ AnnMigratedTo \in DOMAIN newAnnotations
    /\ Lookup(prevAnnotations, AnnMigratedTo) # newAnnotations[AnnMigratedTo]

HasMigratedToAnnotationUpdate(prevAnnotations, newAnnotations) ==
    IF AnnMigratedTo \in DOMAIN newAnnotations
    THEN IF AnnMigratedTo \notin DOMAIN prevAnnotations THEN TRUE ELSE FALSE
    ELSE FALSE

\* One call of a predicate on the annotations drawn at the start.
CallIsValidvSphereVolumeClaim ==
    /\ pred.kind = "annotations"
    /\ pred.op = "none"
    /\ pred' = [pred EXCEPT !.op = "isValidvSphereVolumeClaim",
                            !.res = isValidvSphereVolumeClaim(pred.new)]
    /\ UNCHANGED <<pvCache, pvcCache, podCache, passOut, valid, inline, query>>
    /\ UNCHANGED orchVars

CallIsValidvSphereVolume ==
    /\ pred.kind = "annotations"
    /\ pred.op = "none"
    /\ pred' = [pred EXCEPT !.op = "isValidvSphereVolume",
                            !.res = isValidvSphereVolume(pred.new)]
    /\ UNCHANGED <<pvCache, pvcCache, podCache, passOut, valid, inline, query>>
    /\ UNCHANGED orchVars

CallHasMigratedToAnnotationUpdate ==
    /\ pred.kind = "annotations"
    /\ pred.op = "none"
    /\ pred' = [pred EXCEPT !.op = "HasMigratedToAnnotationUpdate",
                            !.res = HasMigratedToAnnotationUpdate(pred.prev, pred.new)]
    /\ UNCHANGED <<pvCache, pvcCache, podCache, passOut, valid, inline, query>>
    /\ UNCHANGED orchVars

\* IsMultiAttachAllowed.

\* Largest number of access modes of a volume.
MaxModes == 2

AccessModes == {"ReadWriteOnce", "ReadOnlyMany", "ReadWriteMany"}

\* The argument pv *v1.PersistentVolume: nil, or a volume with its
\* Spec.AccessModes.
PVArgs ==
    {[nil |-> TRUE, accessModes |-> <<>>]} \cup
    UNION {{[nil |-> FALSE, accessModes |-> m] : m \in [1..n -> AccessModes]} :
              n \in 0..MaxModes}

\* Used as a variant of IsMultiAttachAllowed: every mode must allow it.
IsMultiAttachAllowedEveryMode(pv) ==
    /\ ~pv.nil
    /\ Len(pv.accessModes) # 0
    /\ \A i \in 1..Len(pv.accessModes) :
          pv.accessModes[i] = "ReadWriteMany" \/ pv.accessModes[i] = "ReadOnlyMany"

IsMultiAttachAllowed(pv) ==
    IF pv.nil THEN FALSE
    ELSE IF Len(pv.accessModes) = 0 THEN FALSE
    ELSE \E i \in 1..Len(pv.accessModes) :
            pv.accessModes[i] = "ReadWriteMany" \/ pv.accessModes[i] = "ReadOnlyMany"

CallIsMultiAttachAllowed ==
    /\ pred.kind = "pv"
    /\ pred.op = "none"
    /\ pred' = [pred EXCEPT !.op = "IsMultiAttachAllowed",
                            !.res = IsMultiAttachAllowed(pred.pv)]
    /\ UNCHANGED <<pvCache, pvcCache, podCache, passOut, valid, inline, query>>
    /\ UNCHANGED orchVars

\* GetSCNameFromPVC.
scNameAnnotationKey == "volume.beta.kubernetes.io/storage-class"

\* The argument pvc: Spec.StorageClassName is a *string (nil, or a string
\* that may be empty), the annotation is missing, empty or a name.
PVCArgs ==
    {[storageClassName |-> sc, ann |-> an] :
        sc \in {[nil |-> TRUE, s |-> ""]} \cup
               {[nil |-> FALSE, s |-> n] : n \in {"", "gold", "fast-disk"}},
        an \in {EmptyMap} \cup
               {[k \in {scNameAnnotationKey} |-> n] : n \in {"", "gold", "fast-disk"}}}

\* Used as a variant of GetSCNameFromPVC: the annotation is preferred.
GetSCNameFromPVCAnnotationFirst(pvc) ==
    IF Lookup(pvc.ann, scNameAnnotationKey) # ""
    THEN [name |-> Lookup(pvc.ann, scNameAnnotationKey), err |-> "nil"]
    ELSE IF pvc.storageClassName.nil \/ pvc.storageClassName.s = ""
    THEN [name |-> "", err |-> "storage class name not specified in PVC"]
    ELSE [name |-> pvc.storageClassName.s, err |-> "nil"]

GetSCNameFromPVC(pvc) ==
    IF pvc.storageClassName.nil \/ pvc.storageClassName.s = ""
    THEN IF Lookup(pvc.ann, scNameAnnotationKey) = ""
         THEN [name |-> "", err |-> "storage class name not specified in PVC"]
         ELSE [name |-> Lookup(pvc.ann, scNameAnnotationKey), err |-> "nil"]
    ELSE [name |-> pvc.storageClassName.s, err |-> "nil"]

CallGetSCNameFromPVC ==
    /\ pred.kind = "pvc"
    /\ pred.op = "none"
    /\ pred' = [pred EXCEPT !.op = "GetSCNameFromPVC",
                            !.res = GetSCNameFromPVC(pred.pvc)]
    /\ UNCHANGED <<pvCache, pvcCache, podCache, passOut, valid, inline, query>>
    /\ UNCHANGED orchVars

\* Used as a variant of initVolumeMigrationService: the error of the
\* construction stays in a variable of its own and nil is returned.
initVolumeMigrationServiceShadowed ==
    /\ pred.kind = "service"
    /\ pred.op = "none"
    /\ \E constructionErr \in {"nil", "construction failed"} :
          pred' = [pred EXCEPT !.op = "initVolumeMigrationService",
                               !.constructionErr = constructionErr,
                               !.service = (constructionErr = "nil"),
                               !.res = "nil"]
    /\ UNCHANGED <<pvCache, pvcCache, podCache, passOut, valid, inline, query>>
    /\ UNCHANGED orchVars

\* initVolumeMigrationService: migration.GetVolumeMigrationService succeeds
\* or fails; its results are assigned to volumeMigrationService and to err.
initVolumeMigrationService ==
    /\ pred.kind = "service"
    /\ pred.op = "none"
    /\ \E constructionErr \in {"nil", "construction failed"} :
          pred' = [pred EXCEPT !.op = "initVolumeMigrationService",
                               !.constructionErr = constructionErr,
                               !.service = (constructionErr = "nil"),
                               !.res = IF constructionErr # "nil"
                                       THEN constructionErr ELSE "nil"]
    /\ UNCHANGED <<pvCache, pvcCache, podCache, passOut, valid, inline, query>>
    /\ UNCHANGED orchVars

\* The helpers on their arguments: every pair of annotation maps, every
\* volume, every claim, and the service not yet constructed.
InitPred ==
    /\ OrchReady({GoMap(EmptyMap)})
    /\ pvCache = <<>>
    /\ pvcCache = <<>>
    /\ podCache = <<>>
    /\ passOut = NoPassOut
    /\ valid = Idle
    /\ inline = Idle
    /\ query = Idle
    /\ pred \in
          {[kind |-> "annotations", op |-> "none", prev |-> a, new |-> b,
            res |-> FALSE] : a \in AnnMaps, b \in AnnMaps}
          \cup {[kind |-> "pv", op |-> "none", pv |-> pv, res |-> FALSE] :
                   pv \in PVArgs}
          \cup {[kind |-> "pvc", op |-> "none", pvc |-> pvc, res |-> FALSE] :
                   pvc \in PVCArgs}
          \cup {[kind |-> "service", op |-> "none", constructionErr |-> "nil",
                 service |-> FALSE, res |-> "nil"]}

NextPred ==
    \/ CallIsValidvSphereVolumeClaim
    \/ CallIsValidvSphereVolume
    \/ CallHasMigratedToAnnotationUpdate
    \/ CallIsMultiAttachAllowed
    \/ CallGetSCNameFromPVC
    \/ initVolumeMigrationService

SpecPred == InitPred /\ [][NextPred]_vars

\* C17: a claim is valid exactly when (a) its migrated-to annotation is this
\* plugin's name and its provisioner annotation is the in-tree plugin's name,
\* or (b) it has no migrated-to annotation and its provisioner annotation is
\* this plugin's name; a migrated-to annotation with another value makes the
\* claim invalid even when the provisioner annotation is this plugin's name.
C17_ClaimValidIff ==
    pred.op = "isValidvSphereVolumeClaim" =>
       (pred.res <=>
           \/ /\ AnnMigratedTo \in DOMAIN pred.new
              /\ pred.new[AnnMigratedTo] = csitypes_Name
              /\ AnnStorageProvisioner \in DOMAIN pred.new
              /\ pred.new[AnnStorageProvisioner] = InTreePluginName
           \/ /\ AnnMigratedTo \notin DOMAIN pred.new
              /\ AnnStorageProvisioner \in DOMAIN pred.new
              /\ pred.new[AnnStorageProvisioner] = csitypes_Name)

C17_Witness ==
    /\ pred.op = "isValidvSphereVolumeClaim"
    /\ AnnMigratedTo \in DOMAIN pred.new
    /\ pred.new[AnnMigratedTo] = OtherDriver
    /\ Lookup(pred.new, AnnStorageProvisioner) = csitypes_Name
    /\ ~pred.res

\* The annotations with the value of the dynamically-provisioned-by key moved
\* to the provisioner key.
MoveProvisioner(ann) ==
    [k \in (DOMAIN ann \ {AnnDynamicallyProvisioned, AnnStorageProvisioner})
             \cup (IF AnnDynamicallyProvisioned \in DOMAIN ann
                   THEN {AnnStorageProvisioner} ELSE {}) |->
        IF k = AnnStorageProvisioner THEN ann[AnnDynamicallyProvisioned] ELSE ann[k]]

\* C18: isValidvSphereVolume on annotations A gives what
\* isValidvSphereVolumeClaim gives on A with the value of the
\* dynamically-provisioned-by key moved to the provisioner key.
C18_VolumeAgreesWithClaim ==
    pred.op = "isValidvSphereVolume" =>
       pred.res = isValidvSphereVolumeClaim(MoveProvisioner(pred.new))

C18_Witness ==
    /\ pred.op = "isValidvSphereVolume"
    /\ AnnDynamicallyProvisioned \in DOMAIN pred.new
    /\ AnnStorageProvisioner \in DOMAIN pred.new
    /\ pred.new[AnnDynamicallyProvisioned] # pred.new[AnnStorageProvisioner]
    /\ pred.res

\* C19: HasMigratedToAnnotationUpdate is true exactly when the new
\* annotations have the migrated-to key and the previous ones do not: false
\* when both have it (equal or different values), when neither has it and
\* when only the previous ones have it.
C19_UpdateIffKeyAppears ==
    pred.op = "HasMigratedToAnnotationUpdate" =>
       (pred.res <=> /\ AnnMigratedTo \in DOMAIN pred.new
                     /\ AnnMigratedTo \notin DOMAIN pred.prev)

C19_Witness ==
    /\ pred.op = "HasMigratedToAnnotationUpdate"
    /\ AnnMigratedTo \in DOMAIN pred.new
    /\ AnnMigratedTo \in DOMAIN pred.prev
    /\ pred.new[AnnMigratedTo] # pred.prev[AnnMigratedTo]
    /\ ~pred.res

----
\* Volume discovery from the informer's cache.

\* Largest number of PersistentVolumes in the cache.
MaxPVs == 2

Phases == {"Pending", "Available", "Bound", "Released", "Failed"}

MigratedAnn ==
    [k \in {AnnMigratedTo, AnnDynamicallyProvisioned} |->
        IF k = AnnMigratedTo THEN csitypes_Name ELSE InTreePluginName]

NotMigratedAnn ==
    [k \in {AnnMigratedTo, AnnDynamicallyProvisioned} |->
        IF k = AnnMigratedTo THEN OtherDriver ELSE csitypes_Name]

\* The kinds of PersistentVolume: csi is Spec.CSI.Driver ("" when Spec.CSI is
\* nil), vsphere tells whether Spec.VsphereVolume is set (the API server
\* admits one volume source per object), ann is ObjectMeta.Annotations.
PVKinds ==
    { [csi |-> csitypes_Name, vsphere |-> FALSE, ann |-> EmptyMap],
      [csi |-> OtherDriver, vsphere |-> FALSE, ann |-> EmptyMap],
      [csi |-> "", vsphere |-> TRUE, ann |-> MigratedAnn],
      [csi |-> "", vsphere |-> TRUE, ann |-> NotMigratedAnn],
      [csi |-> "", vsphere |-> FALSE, ann |-> MigratedAnn] }

PVObj(name, kind, phase) ==
    [name |-> name, csi |-> kind.csi, vsphere |-> kind.vsphere, ann |-> kind.ann,
     phase |-> phase]

\* The caches of up to n volumes; a volume's name is its place in the cache.
PVCaches(n, phases) ==
    UNION { {[i \in 1..len |-> PVObj(i, f[i].kind, f[i].phase)] :
                f \in [1..len -> [kind : PVKinds, phase : phases]]} :
            len \in 0..n }

\* The filter of getBoundPVs with the branch for migrated volumes that
\* getPVsInBoundAvailableOrReleased has.
IsBoundWithMigrated(pv, migration) ==
    /\ \/ pv.csi # "" /\ pv.csi = csitypes_Name
       \/ migration /\ pv.vsphere /\ isValidvSphereVolume(pv.ann)
    /\ pv.phase = "Bound"

\* The filter of getPVsInBoundAvailableOrReleased without the test of the
\* phase.
InDesiredStateAnyPhase(pv, migration) ==
    \/ pv.csi # "" /\ pv.csi = csitypes_Name
    \/ migration /\ pv.vsphere /\ isValidvSphereVolume(pv.ann)

\* The condition under which getPVsInBoundAvailableOrReleased appends pv.
InDesiredState(pv, migration) ==
    /\ \/ pv.csi # "" /\ pv.csi = csitypes_Name
       \/ migration /\ pv.vsphere /\ isValidvSphereVolume(pv.ann)
    /\ \/ pv.phase = "Bound"
       \/ pv.phase = "Available"
       \/ pv.phase = "Released"

\* The condition under which getBoundPVs appends pv.
IsBound(pv, migration) ==
    /\ pv.csi # "" /\ pv.csi = csitypes_Name
    /\ pv.phase = "Bound"

Listed(out) == [out |-> out, err |-> "nil"]

ListFailed == [out |-> <<>>, err |-> "list failed"]

getPVsInBoundAvailableOrReleased ==
    /\ "getPVsInBoundAvailableOrReleased" \notin DOMAIN passOut
    /\ \E listErr \in BOOLEAN :
          passOut' = passOut @@
             ("getPVsInBoundAvailableOrReleased" :>
                 IF listErr THEN ListFailed
                 ELSE Listed(SelectSeq(pvCache,
                                LAMBDA pv : InDesiredState(pv, MigrationEnabled))))
    /\ UNCHANGED <<pvCache, pvcCache, podCache, valid, inline, pred, query>>
    /\ UNCHANGED orchVars

getBoundPVs ==
    /\ "getBoundPVs" \notin DOMAIN passOut
    /\ \E listErr \in BOOLEAN :
          passOut' = passOut @@
             ("getBoundPVs" :>
                 IF listErr THEN ListFailed
                 ELSE Listed(SelectSeq(pvCache,
                                LAMBDA pv : IsBound(pv, MigrationEnabled))))
    /\ UNCHANGED <<pvCache, pvcCache, podCache, valid, inline, pred, query>>
    /\ UNCHANGED orchVars

InitDisc ==
    /\ OrchReady(MigrationPayloads)
    /\ pvCache \in PVCaches(MaxPVs, Phases)
    /\ pvcCache = <<>>
    /\ podCache = <<>>
    /\ passOut = NoPassOut
    /\ valid = Idle
    /\ inline = Idle
    /\ pred = IdlePred
    /\ query = Idle

NextDisc ==
    \/ getPVsInBoundAvailableOrReleased
    \/ getBoundPVs

SpecDisc == InitDisc /\ [][NextDisc]_vars

Desired == "getPVsInBoundAvailableOrReleased"

Succeeded(fn) == fn \in DOMAIN passOut /\ passOut[fn].err = "nil"

Returns(fn, pv) == \E j \in 1..Len(passOut[fn].out) : passOut[fn].out[j] = pv

\* C11: getPVsInBoundAvailableOrReleased returns exactly the cached volumes
\* that (i) are owned by this plugin's CSI driver name or, with the migration
\* feature enabled, are legacy vSphere volumes whose annotations mark them as
\* validly migrated, and (ii) are in phase Bound, Available or Released; each
\* of them once, and no volume that is Pending or Failed, of another driver,
\* or legacy while migration is disabled.
C11_DesiredStateExactly ==
    Succeeded(Desired) =>
       /\ \A i \in 1..Len(pvCache) :
             Returns(Desired, pvCache[i]) <=>
                /\ \/ pvCache[i].csi = csitypes_Name
                   \/ /\ MigrationEnabled
                      /\ pvCache[i].vsphere
                      /\ isValidvSphereVolume(pvCache[i].ann)
                /\ pvCache[i].phase \in {"Bound", "Available", "Released"}
       /\ \A j \in 1..Len(passOut[Desired].out) :
             /\ \E i \in 1..Len(pvCache) : passOut[Desired].out[j] = pvCache[i]
             /\ \A k \in 1..Len(passOut[Desired].out) :
                   passOut[Desired].out[j].name = passOut[Desired].out[k].name
                      => j = k

C11_Witness ==
    /\ Succeeded(Desired)
    /\ MigrationEnabled
    /\ Len(pvCache) = 2
    /\ pvCache[1].csi = csitypes_Name /\ pvCache[1].phase = "Pending"
    /\ pvCache[2].vsphere /\ pvCache[2].phase = "Released"
    /\ passOut[Desired].out = <<pvCache[2]>>

\* C12 as stated: getBoundPVs returns exactly the volumes of
\* getPVsInBoundAvailableOrReleased that are in phase Bound, validly migrated
\* legacy volumes included when the migration feature is enabled.
C12_BoundIsDesiredInBound ==
    (Succeeded(Desired) /\ Succeeded("getBoundPVs")) =>
       passOut["getBoundPVs"].out =
          SelectSeq(passOut[Desired].out, LAMBDA pv : pv.phase = "Bound")

\* C12: getBoundPVs returns exactly the volumes of
\* getPVsInBoundAvailableOrReleased that are in phase Bound and owned by this
\* plugin's CSI driver name; a legacy volume is never returned, validly
\* migrated or not, migration enabled or not.
C12_BoundIsDesiredCSIInBound ==
    (Succeeded(Desired) /\ Succeeded("getBoundPVs")) =>
       /\ passOut["getBoundPVs"].out =
             SelectSeq(passOut[Desired].out,
                       LAMBDA pv : pv.phase = "Bound" /\ pv.csi = csitypes_Name)
       /\ \A i \in 1..Len(pvCache) :
             pvCache[i].vsphere => ~Returns("getBoundPVs", pvCache[i])

C12_Witness ==
    /\ Succeeded(Desired)
    /\ Succeeded("getBoundPVs")
    /\ MigrationEnabled
    /\ Len(pvCache) = 2
    /\ pvCache[1].vsphere /\ pvCache[1].phase = "Bound"
    /\ pvCache[2].csi = csitypes_Name /\ pvCache[2].phase = "Bound"
    /\ passOut[Desired].out = pvCache
    /\ passOut["getBoundPVs"].out = <<pvCache[2]>>

----
\* IsValidVolume: the volume a pod mounts through a claim.

Namespaces == {"ns-a", "ns-b"}

\* The pod and its volume that IsValidVolume is called with.
ThePod == [name |-> "pod-1", namespace |-> "ns-a"]

TheVolume == [name |-> "data", claimName |-> "claim-1"]

\* The claim caches: no claim, or one claim of that name in one of the
\* namespaces; volumeName is Spec.VolumeName, the name of a volume that may
\* be cached or not, 0 for a claim that is not bound.
PVCCaches ==
    {<<>>} \cup
    {<<[name |-> TheVolume.claimName, namespace |-> ns, volumeName |-> v]>> :
        ns \in Namespaces, v \in 0..MaxPVs}

\* pvcLister.PersistentVolumeClaims(namespace).Get(name): the places of the
\* cache that hold the claim; none is the not-found error.
GetPVC(namespace, name) ==
    {i \in 1..Len(pvcCache) :
        pvcCache[i].namespace = namespace /\ pvcCache[i].name = name}

\* pvLister.Get(name)
GetPV(name) == {i \in 1..Len(pvCache) : pvCache[i].name = name}

\* The first test of IsValidVolume: "Verify if pv is vsphere csi volume".
NotVsphereCsiVolume(pv, migration) ==
    /\ pv.csi = "" \/ pv.csi # csitypes_Name
    /\ migration /\ ~pv.vsphere

\* Used as a variant of LegacyWhileDisabled: the test that never rejects.
LegacyAccepted(pv, migration) == FALSE

\* The second test: "Verify if pv is vsphere volume and migration flag is
\* disabled".
LegacyWhileDisabled(pv, migration) == ~migration /\ pv.vsphere

\* Used as a variant of Rejected: a rejection that returns the objects it
\* looked up.
RejectedWithObjects(seen) ==
    [ok |-> FALSE, pv |-> seen, pvc |-> TheVolume.claimName, seen |-> seen]

Rejected(seen) == [ok |-> FALSE, pv |-> 0, pvc |-> "nil", seen |-> seen]

\* What IsValidVolume returns: ok, the volume's name (0 is nil), the claim's
\* name ("nil" is nil); seen is the volume it examined, 0 when a lookup failed.
IsValidVolumeResult(volume, pod) ==
    LET pvcs == GetPVC(pod.namespace, volume.claimName)
    IN  IF pvcs = {} THEN Rejected(0)
        ELSE
          LET pvc == pvcCache[CHOOSE i \in pvcs : TRUE]
              pvs == GetPV(pvc.volumeName)
          IN  IF pvs = {} THEN Rejected(0)
              ELSE
                LET pv == pvCache[CHOOSE i \in pvs : TRUE]
                IN  IF NotVsphereCsiVolume(pv, MigrationEnabled)
                    THEN Rejected(pv.name)
                    ELSE IF LegacyWhileDisabled(pv, MigrationEnabled)
                    THEN Rejected(pv.name)
                    ELSE [ok |-> TRUE, pv |-> pv.name, pvc |-> pvc.name,
                          seen |-> pv.name]

IsValidVolume ==
    /\ valid.st = "idle"
    /\ valid' = [st |-> "done", res |-> IsValidVolumeResult(TheVolume, ThePod)]
    /\ UNCHANGED <<pvCache, pvcCache, podCache, passOut, inline, pred, query>>
    /\ UNCHANGED orchVars

InitValid ==
    /\ OrchReady(MigrationPayloads)
    /\ pvCache \in PVCaches(MaxPVs, {"Bound"})
    /\ pvcCache \in PVCCaches
    /\ podCache = <<>>
    /\ passOut = NoPassOut
    /\ valid = Idle
    /\ inline = Idle
    /\ pred = IdlePred
    /\ query = Idle

NextValid == IsValidVolume

SpecValid == InitValid /\ [][NextValid]_vars

\* The volume IsValidVolume examined.
SeenPV == pvCache[valid.res.seen]

Examined == valid.st = "done" /\ valid.res.seen # 0

\* C14: the pod's volume is valid exactly when the volume of its claim is
\* owned by this plugin's CSI driver name or is a legacy vSphere volume whose
\* annotations mark it as validly migrated, and, when it is a legacy volume,
\* the migration feature is enabled.
C14_ValidIffOwnedOrMigrated ==
    valid.st = "done" =>
       (valid.res.ok <=>
           /\ valid.res.seen # 0
           /\ \/ SeenPV.csi = csitypes_Name
              \/ SeenPV.vsphere /\ isValidvSphereVolume(SeenPV.ann)
           /\ SeenPV.vsphere => MigrationEnabled)

\* C15: a volume that is neither owned by this plugin's CSI driver nor a
\* legacy vSphere volume is not valid, with migration enabled and disabled.
C15_ForeignVolumeInvalid ==
    (Examined /\ SeenPV.csi # csitypes_Name /\ ~SeenPV.vsphere) => ~valid.res.ok

\* C16: with the migration feature disabled a legacy vSphere volume is
\* rejected, without a volume and without a claim, whatever its annotations.
C16_LegacyRejectedWhileDisabled ==
    (Examined /\ ~MigrationEnabled /\ SeenPV.vsphere) =>
       /\ ~valid.res.ok
       /\ valid.res.pv = 0
       /\ valid.res.pvc = "nil"

C16_Witness ==
    /\ Examined
    /\ ~MigrationEnabled
    /\ SeenPV.vsphere
    /\ isValidvSphereVolume(SeenPV.ann)
    /\ ~valid.res.ok

----
\* fullSyncGetInlineMigratedVolumesInfo: the inline vSphere volumes of the pods.

\* Largest number of pods in the cache.
MaxPods == 2

ClaimVolume == [vsphere |-> FALSE, path |-> ""]

InlineVolume(path) == [vsphere |-> TRUE, path |-> path]

\* Spec.Volumes of the pods of the cache.
PodVolumes ==
    { <<ClaimVolume>>,
      <<InlineVolume("[ds] a.vmdk")>>,
      <<InlineVolume("[ds] c.vmdk")>>,
      <<ClaimVolume, InlineVolume("[ds] b.vmdk")>>,
      <<InlineVolume("[ds] a.vmdk"), InlineVolume("[ds] b.vmdk")>> }

PodCaches == UNION {[1..n -> PodVolumes] : n \in 0..MaxPods}

\* volumeMigrationService.GetVolumeID on success: the canonical ID
\* registered for the path, one ID per path.
GetVolumeID(path) ==
    CASE path = "[ds] a.vmdk" -> "vol-a"
      [] path = "[ds] b.vmdk" -> "vol-b"
      [] path = "[ds] c.vmdk" -> "vol-c"

\* The volumes in the order of the two nested loops.
RECURSIVE AllVolumes(_)
AllVolumes(pods) ==
    IF pods = <<>> THEN <<>> ELSE Head(pods) \o AllVolumes(Tail(pods))

\* Used as a variant of AfterFailure: a failure ends the loops.
AfterFailureBreak(refs, i) == Len(refs) + 1

\* `continue` after a failed resolution: on to the next volume.
AfterFailure(refs, i) == i + 1

\* Used as a variant of InlineWalk: the loops without the test of
\* migrationFeatureState.
RECURSIVE InlineWalkAnyState(_, _, _, _, _)
InlineWalkAnyState(refs, i, migrationFeatureState, fails, acc) ==
    IF i > Len(refs) THEN acc
    ELSE IF refs[i].vsphere
    THEN IF i \in fails
         THEN InlineWalkAnyState(refs, i + 1, migrationFeatureState, fails,
                                 [acc EXCEPT !.calls = Append(@, i)])
         ELSE InlineWalkAnyState(refs, i + 1, migrationFeatureState, fails,
                                 [m |-> (GetVolumeID(refs[i].path) :> refs[i].path) @@ acc.m,
                                  calls |-> Append(acc.calls, i)])
    ELSE InlineWalkAnyState(refs, i + 1, migrationFeatureState, fails, acc)

\* The loops from volume i on; fails are the places of the volumes whose
\* resolution fails, acc holds inlineVolumes and the calls made so far.
RECURSIVE InlineWalk(_, _, _, _, _)
InlineWalk(refs, i, migrationFeatureState, fails, acc) ==
    IF i > Len(refs) THEN acc
    ELSE IF migrationFeatureState /\ refs[i].vsphere
    THEN IF i \in fails
         THEN InlineWalk(refs, AfterFailure(refs, i), migrationFeatureState, fails,
                         [acc EXCEPT !.calls = Append(@, i)])
         ELSE InlineWalk(refs, i + 1, migrationFeatureState, fails,
                         [m |-> (GetVolumeID(refs[i].path) :> refs[i].path) @@ acc.m,
                          calls |-> Append(acc.calls, i)])
    ELSE InlineWalk(refs, i + 1, migrationFeatureState, fails, acc)

fullSyncGetInlineMigratedVolumesInfo(migrationFeatureState) ==
    /\ inline.st = "idle"
    /\ \/ inline' = [st |-> "done", migration |-> migrationFeatureState,
                     refs |-> <<>>, fails |-> {}, out |-> NilMap, calls |-> <<>>,
                     err |-> "list failed"]
       \/ \E fails \in SUBSET {i \in 1..Len(AllVolumes(podCache)) :
                                 migrationFeatureState /\ AllVolumes(podCache)[i].vsphere} :
             LET refs == AllVolumes(podCache)
                 acc == InlineWalk(refs, 1, migrationFeatureState, fails,
                                   [m |-> EmptyMap, calls |-> <<>>])
             IN  inline' = [st |-> "done", migration |-> migrationFeatureState,
                            refs |-> refs, fails |-> fails, out |-> GoMap(acc.m),
                            calls |-> acc.calls, err |-> "nil"]
    /\ UNCHANGED <<pvCache, pvcCache, podCache, passOut, valid, pred, query>>
    /\ UNCHANGED orchVars

InitInline ==
    /\ OrchReady(MigrationPayloads)
    /\ pvCache = <<>>
    /\ pvcCache = <<>>
    /\ podCache \in PodCaches
    /\ passOut = NoPassOut
    /\ valid = Idle
    /\ inline = Idle
    /\ pred = IdlePred
    /\ query = Idle

\* The caller passes the feature state it has read.
NextInline == fullSyncGetInlineMigratedVolumesInfo(MigrationEnabled)

SpecInline == InitInline /\ [][NextInline]_vars

\* The reference at place i was resolved by the migration service.
Resolved(i) == inline.refs[i].vsphere /\ i \notin inline.fails

\* C13: with migration enabled, a failed resolution of an inline legacy
\* reference skips that reference only: the pass returns without error and
\* its mapping holds canonical ID -> legacy path for every reference that was
\* resolved, before or after the failing one, and for nothing else.
C13_FailureSkipsOneReference ==
    (inline.st = "done" /\ inline.migration /\ inline.err # "list failed") =>
       /\ inline.err = "nil"
       /\ ~inline.out.nil
       /\ \A i \in 1..Len(inline.refs) :
             Resolved(i) =>
                /\ GetVolumeID(inline.refs[i].path) \in DOMAIN inline.out.m
                /\ inline.out.m[GetVolumeID(inline.refs[i].path)] = inline.refs[i].path
       /\ \A id \in DOMAIN inline.out.m :
             \E i \in 1..Len(inline.refs) :
                Resolved(i) /\ GetVolumeID(inline.refs[i].path) = id

C13_Witness ==
    /\ inline.st = "done"
    /\ inline.migration
    /\ inline.err = "nil"
    /\ Len(inline.refs) = 3
    /\ inline.fails = {2}
    /\ DOMAIN inline.out.m = {"vol-a", "vol-c"}

----
\* fullSyncGetQueryResults: the paginated query of the backend catalog.

\* Largest number of QueryVolume calls of one pass that the model follows.
MaxCalls == 3

\* The page size (Limit of the first cursor), scaled down.
queryVolumeLimit == 2

\* Offsets and totals a backend answers with.
Offsets == {2, 4, 5}

Totals == {4, 5}

Cursor(offset, limit, total) ==
    [offset |-> offset, limit |-> limit, total |-> total]

\* What QueryVolume answers: an error, a nil result, or a result with its
\* cursor and the number of volumes it carries.
QueryResults ==
    {[kind |-> "page", cursor |-> Cursor(o, queryVolumeLimit, t), volumes |-> n] :
        o \in Offsets, t \in Totals, n \in 0..queryVolumeLimit}

Responses == {[kind |-> "err"], [kind |-> "nil"]} \cup QueryResults

VolumeIdLists == {<<>>, <<"vol-a">>}

ClusterIDs == {"", "cluster-1"}

\* Used as a variant of FirstFilter: the cluster filter is always set.
FirstFilterAlwaysScoped(volumeIds, clusterID) ==
    [volumeIds |-> volumeIds,
     clusterIds |-> <<clusterID>>,
     cursor |-> Cursor(0, queryVolumeLimit, 0)]

\* The filter built before the loop.
FirstFilter(volumeIds, clusterID) ==
    [volumeIds |-> volumeIds,
     clusterIds |-> IF clusterID # "" THEN <<clusterID>> ELSE <<>>,
     cursor |-> Cursor(0, queryVolumeLimit, 0)]

\* Used as variants of LastPage: a result without volumes is the last one; a
\* page that is not full is the last one.
LastPageOrEmpty(queryResult) ==
    \/ queryResult.cursor.offset = queryResult.cursor.total
    \/ queryResult.volumes = 0

LastPageWhenShort(queryResult) == queryResult.volumes < queryVolumeLimit

\* The loop's exit test on a result.
LastPage(queryResult) == queryResult.cursor.offset = queryResult.cursor.total

\* Used as variants of NextCursor: the next request starts again at offset 0;
\* only the offset is carried over.
NextCursorRestart(queryResult) ==
    Cursor(0, queryResult.cursor.limit, queryResult.cursor.total)

NextCursorOffsetOnly(queryResult) ==
    Cursor(queryResult.cursor.offset, queryVolumeLimit, 0)

\* queryFilter.Cursor = &queryResult.Cursor
NextCursor(queryResult) == queryResult.cursor

\* Used as variants of OnQueryError: the pages fetched so far are returned
\* with the error, or as a success.
OnQueryErrorPartial(allQueryResults) ==
    [out |-> allQueryResults, err |-> "query failed"]

OnQueryErrorSwallowed(allQueryResults) == [out |-> allQueryResults, err |-> "nil"]

\* return nil, err
OnQueryError(allQueryResults) == [out |-> <<>>, err |-> "query failed"]

\* Used as a variant of OnNilResult: the pages fetched so far are dropped.
OnNilResultEmpty(allQueryResults) == [out |-> <<>>, err |-> "nil"]

\* break on a nil result, then return allQueryResults, nil
OnNilResult(allQueryResults) == [out |-> allQueryResults, err |-> "nil"]

\* What QueryVolume may answer: a call whose context is cancelled before the
\* answer arrives fails.
QueryVolumeAnswers(cancelled) ==
    IF cancelled THEN {[kind |-> "err"]} ELSE Responses

QueryStart(volumeIds, clusterID) ==
    /\ query.st = "idle"
    /\ query' = [st |-> "loop", volumeIds |-> volumeIds, clusterID |-> clusterID,
                 cancelled |-> FALSE, filter |-> FirstFilter(volumeIds, clusterID),
                 all |-> <<>>, sent |-> <<>>, recv |-> <<>>,
                 res |-> [out |-> <<>>, err |-> "nil"]]
    /\ UNCHANGED <<pvCache, pvcCache, podCache, passOut, valid, inline, pred>>
    /\ UNCHANGED orchVars

\* The top of the loop: volumeManager.QueryVolume(ctx, queryFilter) is called
\* and the pass blocks until the answer.
QuerySend ==
    /\ query.st = "loop"
    /\ Len(query.sent) < MaxCalls
    /\ query' = [query EXCEPT !.st = "wait", !.sent = Append(@, query.filter)]
    /\ UNCHANGED <<pvCache, pvcCache, podCache, passOut, valid, inline, pred>>
    /\ UNCHANGED orchVars

\* The rest of the turn: the answer of QueryVolume and what follows it.
QueryVolume(resp) ==
    /\ query.st = "wait"
    /\ resp \in QueryVolumeAnswers(query.cancelled)
    /\ LET q == [query EXCEPT !.recv = Append(@, resp)]
       IN  query' =
             IF resp.kind = "err"
             THEN [q EXCEPT !.st = "done", !.res = OnQueryError(query.all)]
             ELSE IF resp.kind = "nil"
             THEN [q EXCEPT !.st = "done", !.res = OnNilResult(query.all)]
             ELSE IF LastPage(resp)
             THEN [q EXCEPT !.st = "done", !.all = Append(@, resp),
                            !.res = [out |-> Append(query.all, resp), err |-> "nil"]]
             ELSE [q EXCEPT !.st = "loop", !.all = Append(@, resp),
                            !.filter.cursor = NextCursor(resp)]
    /\ UNCHANGED <<pvCache, pvcCache, podCache, passOut, valid, inline, pred>>
    /\ UNCHANGED orchVars

\* The caller's context is cancelled, or its deadline passes, while the pass
\* is running.
CancelContext ==
    /\ query.st \in {"loop", "wait"}
    /\ ~query.cancelled
    /\ query' = [query EXCEPT !.cancelled = TRUE]
    /\ UNCHANGED <<pvCache, pvcCache, podCache, passOut, valid, inline, pred>>
    /\ UNCHANGED orchVars

InitQuery ==
    /\ OrchReady({GoMap(EmptyMap)})
    /\ pvCache = <<>>
    /\ pvcCache = <<>>
    /\ podCache = <<>>
    /\ passOut = NoPassOut
    /\ valid = Idle
    /\ inline = Idle
    /\ pred = IdlePred
    /\ query = Idle

NextQuery ==
    \/ \E v \in VolumeIdLists, c \in ClusterIDs : QueryStart(v, c)
    \/ QuerySend
    \/ \E resp \in Responses : QueryVolume(resp)
    \/ CancelContext

SpecQuery == InitQuery /\ [][NextQuery]_vars

\* The backend has answered every call so far with a result.
OnlyPages ==
    /\ query.st # "idle"
    /\ Len(query.recv) > 0
    /\ \A i \in 1..Len(query.recv) : query.recv[i].kind = "page"

RECURSIVE SumVolumes(_)
SumVolumes(pages) ==
    IF pages = <<>> THEN 0 ELSE Head(pages).volumes + SumVolumes(Tail(pages))

\* C20: while the backend answers with results, the pass goes on calling it
\* until a result's offset equals its total: it ends at the first such
\* result, after as many calls as results, and returns exactly the results
\* received, in their order and with their records, without error.
C20_AllPagesInOrder ==
    OnlyPages =>
       /\ Len(query.sent) = Len(query.recv) + (IF query.st = "wait" THEN 1 ELSE 0)
       /\ query.all = query.recv
       /\ \A i \in 1..(Len(query.recv) - 1) :
             query.recv[i].cursor.offset # query.recv[i].cursor.total
       /\ query.st = "done" <=>
             query.recv[Len(query.recv)].cursor.offset =
                query.recv[Len(query.recv)].cursor.total
       /\ query.st = "done" =>
             /\ query.res.err = "nil"
             /\ query.res.out = query.recv

\* Three results of 2, 2 and 1 records: 5 records after 3 calls.
C20_Witness ==
    /\ OnlyPages
    /\ query.st = "done"
    /\ Len(query.sent) = 3
    /\ [i \in 1..3 |-> query.res.out[i].volumes] = <<2, 2, 1>>
    /\ [i \in 1..3 |-> query.res.out[i].cursor.offset] = <<2, 4, 5>>
    /\ SumVolumes(query.res.out) = 5

\* The backend's latest answer, once the pass has taken it.
Answered == query.st \in {"loop", "done"} /\ Len(query.recv) > 0

LastAnswer == query.recv[Len(query.recv)]

\* C21: when a page query fails, the first or a later one, the pass ends with
\* the error and no result at all (the pages fetched before are not
\* returned), and no backend call follows the failed one.
C21_ErrorAbortsWithoutResult ==
    query.st # "idle" =>
       \A i \in 1..Len(query.recv) :
          query.recv[i].kind = "err" =>
             /\ i = Len(query.recv)
             /\ Len(query.sent) = i
             /\ query.st = "done"
             /\ query.res.err # "nil"
             /\ query.res.out = <<>>

C21_Witness ==
    /\ query.st = "done"
    /\ ~query.cancelled
    /\ Len(query.sent) = 2
    /\ query.recv[1].kind = "page"
    /\ query.recv[2].kind = "err"
    /\ Len(query.all) = 1
    /\ query.res = [out |-> <<>>, err |-> "query failed"]

\* C22 as stated: the pass ends exactly when the returned offset equals the
\* returned total or a page returns empty, a nil result or a result without
\* volumes alike: after a result without volumes whose offset differs from
\* its total no further query is made.
C22_StopsOnEmptyPage ==
    (Answered /\ LastAnswer.kind # "err") =>
       (query.st = "done" <=>
           \/ LastAnswer.kind = "nil"
           \/ /\ LastAnswer.kind = "page"
              /\ \/ LastAnswer.cursor.offset = LastAnswer.cursor.total
                 \/ LastAnswer.volumes = 0)

\* C22: the pass ends exactly when a query fails, the backend answers with a
\* nil result, or the returned offset equals the returned total; a result
\* without volumes whose offset differs from its total does not end it: the
\* next query carries that result's cursor.
C22_StopsOnNilOrLastOffset ==
    Answered =>
       /\ query.st = "done" <=>
             \/ LastAnswer.kind \in {"err", "nil"}
             \/ /\ LastAnswer.kind = "page"
                /\ LastAnswer.cursor.offset = LastAnswer.cursor.total
       /\ query.st = "loop" => query.filter.cursor = LastAnswer.cursor

C22_Witness ==
    /\ query.st = "wait"
    /\ Len(query.sent) = 2
    /\ query.recv[1].kind = "page"
    /\ query.recv[1].volumes = 0
    /\ query.recv[1].cursor.offset # query.recv[1].cursor.total
    /\ query.sent[2].cursor = query.recv[1].cursor

\* C23 as stated: the offset sent to the backend never decreases from one
\* request to the next, whatever the backend answers.
C23_OffsetNeverDecreases ==
    query.st # "idle" =>
       \A i \in 1..(Len(query.sent) - 1) :
          query.sent[i].cursor.offset <= query.sent[i + 1].cursor.offset

\* C23: the first request carries offset 0 and every later request the offset
\* the backend returned with the previous result, so the offsets sent do not
\* decrease as long as the offsets the backend returns do not decrease.
C23_OffsetFollowsBackend ==
    query.st # "idle" =>
       /\ \A i \in 1..Len(query.sent) :
             query.sent[i].cursor.offset =
                IF i = 1 THEN 0 ELSE query.recv[i - 1].cursor.offset
       /\ (\A i \in 1..(Len(query.all) - 1) :
              query.all[i].cursor.offset <= query.all[i + 1].cursor.offset)
          => \A i \in 1..(Len(query.sent) - 1) :
                query.sent[i].cursor.offset <= query.sent[i + 1].cursor.offset

C23_Witness ==
    /\ query.st # "idle"
    /\ Len(query.sent) = 3
    /\ [i \in 1..3 |-> query.sent[i].cursor.offset] = <<0, 2, 4>>

----
\* C25: IsMultiAttachAllowed is true exactly when the volume is not nil and
\* has at least one access mode among ReadWriteMany and ReadOnlyMany; false
\* for a nil volume, without access modes, and with ReadWriteOnce only.
C25_MultiAttachIffSharedMode ==
    pred.op = "IsMultiAttachAllowed" =>
       (pred.res <=>
           /\ ~pred.pv.nil
           /\ {"ReadWriteMany", "ReadOnlyMany"} \cap
                 {pred.pv.accessModes[i] : i \in 1..Len(pred.pv.accessModes)} # {})

C25_Witness ==
    /\ pred.op = "IsMultiAttachAllowed"
    /\ pred.pv.accessModes = <<"ReadWriteOnce", "ReadOnlyMany">>
    /\ pred.res

\* C26: GetSCNameFromPVC returns the claim's storage-class field when it is
\* set and not empty, whatever the legacy annotation says; otherwise the value
\* of the legacy annotation when that is not empty; otherwise an error and an
\* empty name.
C26_ClassFieldThenAnnotation ==
    pred.op = "GetSCNameFromPVC" =>
       LET field == pred.pvc.storageClassName
           hasField == ~field.nil /\ field.s # ""
           hasAnn == /\ scNameAnnotationKey \in DOMAIN pred.pvc.ann
                     /\ pred.pvc.ann[scNameAnnotationKey] # ""
       IN  /\ hasField => pred.res = [name |-> field.s, err |-> "nil"]
           /\ (~hasField /\ hasAnn) =>
                 pred.res = [name |-> pred.pvc.ann[scNameAnnotationKey], err |-> "nil"]
           /\ (~hasField /\ ~hasAnn) => (pred.res.err # "nil" /\ pred.res.name = "")

C26_Witness ==
    /\ pred.op = "GetSCNameFromPVC"
    /\ pred.pvc.storageClassName = [nil |-> FALSE, s |-> "gold"]
    /\ Lookup(pred.pvc.ann, scNameAnnotationKey) = "fast-disk"
    /\ pred.res = [name |-> "gold", err |-> "nil"]

\* C27: initVolumeMigrationService returns the error of the construction
\* whenever the construction of the migration service fails, and no error
\* only when the construction succeeded.
C27_ConstructionErrorSurfaced ==
    pred.op = "initVolumeMigrationService" =>
       /\ pred.constructionErr # "nil" => pred.res = pred.constructionErr
       /\ pred.res = "nil" => pred.constructionErr = "nil"

C27_Witness ==
    /\ pred.op = "initVolumeMigrationService"
    /\ pred.constructionErr = "construction failed"
    /\ pred.res = "construction failed"

----
\* C28: the page loop is sequential and chained by the cursor: the first
\* request carries offset 0 and the page-size limit, request n+1 is made only
\* after answer n has arrived and carries exactly the cursor (offset, limit,
\* total) of answer n, and never are two requests of a pass outstanding.
C28_SequentialCursorChain ==
    query.st # "idle" =>
       /\ Len(query.sent) >= 1 =>
             query.sent[1].cursor = Cursor(0, queryVolumeLimit, 0)
       /\ \A n \in 1..(Len(query.sent) - 1) :
             /\ n <= Len(query.recv)
             /\ query.recv[n].kind = "page"
             /\ query.sent[n + 1].cursor = query.recv[n].cursor
       /\ Len(query.sent) - Len(query.recv) = IF query.st = "wait" THEN 1 ELSE 0

C28_Witness ==
    /\ query.st = "wait"
    /\ Len(query.sent) = 3
    /\ Len(query.recv) = 2
    /\ query.sent[3].cursor = query.recv[2].cursor
    /\ query.recv[2].cursor # query.recv[1].cursor

\* C29: over all requests of a pass only the cursor changes: each carries the
\* volume IDs the caller gave (an empty list stays empty) and the same
\* cluster scope, [clusterID] when clusterID is not empty and none otherwise.
C29_OnlyCursorChanges ==
    query.st # "idle" =>
       \A i \in 1..Len(query.sent) :
          /\ query.sent[i].volumeIds = query.volumeIds
          /\ query.sent[i].clusterIds =
                IF query.clusterID = "" THEN <<>> ELSE <<query.clusterID>>
          /\ DOMAIN query.sent[i] = {"volumeIds", "clusterIds", "cursor"}

C29_Witness ==
    /\ query.st # "idle"
    /\ Len(query.sent) = 2
    /\ query.volumeIds = <<>>
    /\ query.clusterID = ""
    /\ query.sent[2].volumeIds = <<>>
    /\ query.sent[2].clusterIds = <<>>
    /\ query.sent[2].cursor # query.sent[1].cursor

\* C30 as stated: a return without error is complete: no page was returned
\* by the backend, or the last page of the result has its offset equal to its
\* total; a nil result after a page with offset below total never yields a
\* successful return with the earlier pages only.
C30_SuccessIsComplete ==
    (query.st = "done" /\ query.res.err = "nil") =>
       \/ query.res.out = <<>>
       \/ query.res.out[Len(query.res.out)].cursor.offset =
             query.res.out[Len(query.res.out)].cursor.total

\* C30: a return without error follows either a result whose offset equals
\* its total, and then holds every result received, or a nil result, and
\* then holds exactly the results received before it, none or some, the last
\* of which has an offset that differs from its total.
C30_SuccessEndsAtTotalOrNil ==
    (query.st = "done" /\ query.res.err = "nil") =>
       \/ /\ LastAnswer.kind = "page"
          /\ LastAnswer.cursor.offset = LastAnswer.cursor.total
          /\ query.res.out = query.recv
       \/ /\ LastAnswer.kind = "nil"
          /\ query.res.out = SubSeq(query.recv, 1, Len(query.recv) - 1)
          /\ \A i \in 1..Len(query.res.out) :
                /\ query.res.out[i].kind = "page"
                /\ query.res.out[i].cursor.offset # query.res.out[i].cursor.total

C30_Witness ==
    /\ query.st = "done"
    /\ query.res.err = "nil"
    /\ Len(query.recv) = 2
    /\ LastAnswer.kind = "nil"
    /\ Len(query.res.out) = 1
    /\ query.res.out[1].cursor.offset < query.res.out[1].cursor.total

----
\* getPVsInBoundAvailableOrReleased volume by volume, with the informer's
\* callbacks running between two iterations of its loop.

\* The pass in progress: out is pvsInDesiredState, i the position of the range
\* loop in allPVs; snap (the feature state when the volumes were listed) and
\* seen (the feature state at each iteration) are history fields.
Running(snap) == [out |-> <<>>, err |-> "running", i |-> 1, snap |-> snap, seen |-> <<>>]

InPass == Desired \in DOMAIN passOut /\ passOut[Desired].err = "running"

\* allPVs, err := metadataSyncer.pvLister.List(labels.Everything())
getPVsList ==
    /\ Desired \notin DOMAIN passOut
    /\ \E listErr \in BOOLEAN :
          passOut' = passOut @@
             (Desired :> IF listErr THEN ListFailed ELSE Running(MigrationEnabled))
    /\ UNCHANGED <<pvCache, pvcCache, podCache, valid, inline, pred, query>>
    /\ UNCHANGED orchVars

\* A pass that would read the feature state once, when it lists the volumes.
IsFSSEnabledAtList(snap) == snap

\* The feature state an iteration filters against: IsFSSEnabled is called in
\* the condition of the loop body.
IsFSSEnabledAtIter(snap) == MigrationEnabled

\* One iteration of for _, pv := range allPVs.
getPVsIter ==
    /\ InPass
    /\ passOut[Desired].i <= Len(pvCache)
    /\ LET p == passOut[Desired]
           pv == pvCache[p.i]
       IN passOut' = [passOut EXCEPT ![Desired] =
             [p EXCEPT !.out = IF InDesiredState(pv, IsFSSEnabledAtIter(p.snap))
                                THEN Append(p.out, pv) ELSE p.out,
                       !.i = p.i + 1,
                       !.seen = Append(p.seen, MigrationEnabled)]]
    /\ UNCHANGED <<pvCache, pvcCache, podCache, valid, inline, pred, query>>
    /\ UNCHANGED orchVars

\* return pvsInDesiredState, nil
getPVsReturn ==
    /\ InPass
    /\ passOut[Desired].i > Len(pvCache)
    /\ passOut' = [passOut EXCEPT ![Desired].err = "nil"]
    /\ UNCHANGED <<pvCache, pvcCache, podCache, valid, inline, pred, query>>
    /\ UNCHANGED orchVars

\* The volumes of the cache are volumes the filter can select: of this driver,
\* or legacy vSphere volumes.
InitPass ==
    /\ OrchReady(MigrationPayloads)
    /\ pvCache \in {c \in PVCaches(MaxPVs, {"Bound"}) :
                       \A i \in 1..Len(c) : c[i].csi = csitypes_Name \/ c[i].vsphere}
    /\ pvcCache = <<>>
    /\ podCache = <<>>
    /\ passOut = NoPassOut
    /\ valid = Idle
    /\ inline = Idle
    /\ pred = IdlePred
    /\ query = Idle

\* The informer decodes a new version of the designated object.
NewVersion ==
    /\ CallbacksLive
    /\ Len(objs) < MaxObjs
    /\ \E d \in MigrationPayloads :
          objs' = Append(objs, ConfigMapObj(CfgName, CfgNamespace, d))
    /\ UNCHANGED <<featureStates, last>>
    /\ UNCHANGED initVars
    /\ UNCHANGED concVars
    /\ UNCHANGED syncVars

NextPass ==
    \/ getPVsList
    \/ getPVsIter
    \/ getPVsReturn
    \/ NewVersion
    \/ \E o \in ObjRefs : configMapAdded(o)
    \/ \E new \in ObjRefs : configMapUpdated(Previous(new), new)
    \/ \E o \in ObjRefs : configMapDeleted(o)

SpecPass == InitPass /\ [][NextPass]_vars

PassDone == Succeeded(Desired)

SameButName(a, b) ==
    /\ a.csi = b.csi /\ a.vsphere = b.vsphere /\ a.ann = b.ann /\ a.phase = b.phase

\* C31 as stated: within one pass of getPVsInBoundAvailableOrReleased every
\* volume is filtered against the same value of the migration feature state,
\* also when a callback changes the feature state during the pass: two volumes
\* that differ in their names only are both selected or both dropped.
C31_OneValuePerPass ==
    PassDone =>
       /\ \E m \in BOOLEAN :
             \A i \in 1..Len(pvCache) :
                Returns(Desired, pvCache[i]) <=>
                   /\ \/ pvCache[i].csi = csitypes_Name
                      \/ m /\ pvCache[i].vsphere /\ isValidvSphereVolume(pvCache[i].ann)
                   /\ pvCache[i].phase \in {"Bound", "Available", "Released"}
       /\ \A i, j \in 1..Len(pvCache) :
             SameButName(pvCache[i], pvCache[j]) =>
                (Returns(Desired, pvCache[i]) <=> Returns(Desired, pvCache[j]))

\* C31: within one pass of getPVsInBoundAvailableOrReleased each volume is
\* filtered against the value the migration feature state has when that
\* volume is examined; the volumes of a pass are filtered against one value
\* when no callback changed the feature state between the iterations.
C31_FilteredAgainstLiveValue ==
    PassDone =>
       /\ Len(passOut[Desired].seen) = Len(pvCache)
       /\ \A i \in 1..Len(pvCache) :
             Returns(Desired, pvCache[i]) <=>
                /\ \/ pvCache[i].csi = csitypes_Name
                   \/ /\ passOut[Desired].seen[i]
                      /\ pvCache[i].vsphere
                      /\ isValidvSphereVolume(pvCache[i].ann)
                /\ pvCache[i].phase \in {"Bound", "Available", "Released"}

\* A callback disabled the migration between the two iterations: of two
\* validly migrated legacy volumes in phase Bound, the first is selected and
\* the second is dropped.
C31_Witness ==
    /\ PassDone
    /\ Len(pvCache) = 2
    /\ SameButName(pvCache[1], pvCache[2])
    /\ pvCache[1].vsphere /\ isValidvSphereVolume(pvCache[1].ann)
    /\ pvCache[1].phase = "Bound"
    /\ passOut[Desired].snap
    /\ passOut[Desired].seen = <<TRUE, FALSE>>
    /\ passOut[Desired].out = <<pvCache[1]>>

----
\* C32: the orchestrator never mutates the key/value payload of a
\* configuration object delivered by the informer: over every add, update and
\* delete callback the payload map of every delivered object keeps the values
\* it was delivered with.
C32_DeliveredPayloadUnchanged ==
    [][ \A o \in 1..Len(objs) :
          /\ Len(objs') >= o
          /\ objs'[o].data = objs[o].data
      ]_vars

----
\* The readers of the feature states and of the caches next to the callbacks.

\* The syncer's periodic task has called no helper yet.
SyncFree ==
    /\ passOut = NoPassOut
    /\ valid = Idle
    /\ inline = Idle
    /\ query = Idle

\* Legacy volumes marked as migrated, a claim of the pod's namespace bound to
\* the first of them, and pods that mount a claim and an inline legacy volume.
InitCore ==
    /\ OrchReady(MigrationPayloads)
    /\ pvCache = [i \in 1..MaxPVs |->
                    PVObj(i, [csi |-> "", vsphere |-> TRUE, ann |-> MigratedAnn],
                          "Bound")]
    /\ pvcCache = <<[name |-> TheVolume.claimName, namespace |-> ThePod.namespace,
                     volumeName |-> 1]>>
    /\ podCache = [i \in 1..MaxPods |-> <<ClaimVolume, InlineVolume("[ds] b.vmdk")>>]
    /\ passOut = NoPassOut
    /\ valid = Idle
    /\ inline = Idle
    /\ pred = IdlePred
    /\ query = Idle

\* The callbacks, IsFSSEnabled, and one helper of the syncer; the backend
\* answers a query with an error, a nil result or a full page of four
\* volumes in all.
NextCore ==
    \/ NewVersion
    \/ \E o \in 1..Len(objs) : configMapAdded(o)
    \/ \E new \in 1..Len(objs) : configMapUpdated(Previous(new), new)
    \/ \E o \in 1..Len(objs) : configMapDeleted(o)
    \/ CallIsFSSEnabled(FirstCaller, CSIMigration)
    \/ SyncFree /\ getPVsInBoundAvailableOrReleased
    \/ SyncFree /\ getBoundPVs
    \/ SyncFree /\ fullSyncGetInlineMigratedVolumesInfo(MigrationEnabled)
    \/ SyncFree /\ IsValidVolume
    \/ SyncFree /\ \E c \in ClusterIDs : QueryStart(<<>>, c)
    \/ QuerySend
    \/ \E resp \in {r \in Responses :
                      r.kind = "page" =>
                         r.volumes = queryVolumeLimit /\ r.cursor.total = 4} :
          QueryVolume(resp)
    \/ CancelContext

SpecCore == InitCore /\ [][NextCore]_vars

\* A step of a reader: IsFSSEnabled has returned, or a helper of the syncer
\* has moved.
C33_ReaderStep ==
    \/ last'.op = "read" /\ last' # last
    \/ <<passOut, valid, inline, query>>' # <<passOut, valid, inline, query>>

\* C33: the feature states have one writer path: a step that changes them is
\* an add, update or delete callback for the designated object (the set the
\* initial fetch left is the one these steps start from); a step of
\* IsFSSEnabled, of a discovery operation, of IsValidVolume or of
\* fullSyncGetQueryResults leaves the feature states, the delivered objects
\* and the caches of volumes, claims and pods as they were.
C33_OneWriterPath ==
    [][ /\ (featureStates' # featureStates \/ View' # View) =>
             /\ IsEvent(last', {"add", "update", "delete"})
             /\ ~Ignored(last'.obj)
             /\ ~C33_ReaderStep
        /\ C33_ReaderStep =>
             /\ featureStates' = featureStates
             /\ objs' = objs
             /\ <<pvCache, pvcCache, podCache>>' = <<pvCache, pvcCache, podCache>>
      ]_vars

\* An update has replaced the set and, after it, IsFSSEnabled was read and a
\* discovery pass has returned the volumes.
C33_Witness ==
    /\ featureStates = 2
    /\ View # Content(objs[1].data)
    /\ last.op = "read"
    /\ last.res
    /\ Succeeded(Desired)
    /\ passOut[Desired].out = pvCache

----
\* C34: once the pods are listed, fullSyncGetInlineMigratedVolumesInfo with
\* the migration feature disabled returns an empty mapping and no error and
\* makes no call of the migration service, whatever inline legacy references
\* the pods carry; with the feature enabled, every call of the migration
\* service is for a pod volume that carries an inline legacy vSphere
\* reference.
C34_MigrationGatesResolution ==
    (inline.st = "done" /\ inline.err # "list failed") =>
       /\ ~inline.migration =>
             /\ inline.err = "nil"
             /\ ~inline.out.nil
             /\ inline.out.m = EmptyMap
             /\ inline.calls = <<>>
       /\ inline.migration =>
             \A k \in 1..Len(inline.calls) :
                /\ inline.calls[k] \in 1..Len(inline.refs)
                /\ inline.refs[inline.calls[k]].vsphere

\* The feature is disabled and the pods carry three inline legacy references.
C34_Witness ==
    /\ inline.st = "done"
    /\ ~inline.migration
    /\ inline.err = "nil"
    /\ Len(inline.refs) = 3
    /\ \A i \in 1..3 : inline.refs[i].vsphere
    /\ inline.calls = <<>>
    /\ inline.out = GoMap(EmptyMap)

----
\* C35: IsValidVolume returns a volume and a claim exactly when it returns
\* true: on a false outcome (the claim or the volume is not found, or the
\* volume is rejected) both are nil; on a true outcome the claim is the cached
\* claim of the pod's namespace that the pod's volume names, and the volume is
\* the cached volume this claim references.
C35_ObjectsIffTrue ==
    valid.st = "done" =>
       /\ valid.res.ok <=> (valid.res.pv # 0 /\ valid.res.pvc # "nil")
       /\ ~valid.res.ok => (valid.res.pv = 0 /\ valid.res.pvc = "nil")
       /\ valid.res.ok =>
             \E i \in 1..Len(pvcCache) :
                /\ pvcCache[i].namespace = ThePod.namespace
                /\ pvcCache[i].name = TheVolume.claimName
                /\ valid.res.pvc = pvcCache[i].name
                /\ valid.res.pv = pvcCache[i].volumeName
                /\ \E j \in 1..Len(pvCache) : pvCache[j].name = valid.res.pv

\* The claim of the pod's namespace references the second of two volumes, a
\* volume of this driver, and both objects are returned.
C35_Witness ==
    /\ valid.st = "done"
    /\ valid.res.ok
    /\ Len(pvCache) = 2
    /\ pvcCache[1].namespace = ThePod.namespace
    /\ pvcCache[1].volumeName = 2
    /\ pvCache[2].csi = csitypes_Name
    /\ valid.res.pv = 2
    /\ valid.res.pvc = TheVolume.claimName

====
